---- MODULE Spec2Model ----
(***************************************************************************)
(* Elgato Key Light controller (keylight): the interactive session         *)
(* (model.Update / activateControl), the one-shot commands (handleCLI and  *)
(* the cli* functions) and the device client (getLightState, setLight,     *)
(* toggleLight, toggleLightFast) of src/unnamed/part_000.                  *)
(*                                                                         *)
(* A device is a store behind an HTTP endpoint: a PUT that the device      *)
(* accepts overwrites the fields it carries, a GET reports the store.      *)
(* Every call can fail; the outcome of each call is chosen by the          *)
(* environment.  All integers of the model are non-negative, so Go's       *)
(* truncating "/" is \div.                                                 *)
(***************************************************************************)
EXTENDS Integers, Sequences, FiniteSets, TLC

VARIABLES
    disk,               \* ~/.config/keylight/config.json
    config,             \* *Config of the running process (model.config)
    lights,             \* model.lights: name -> address
    lightsList,         \* model.lightsList: the names, in start-up order
    selectedLightMode,  \* model.selectedLightMode
    focusedControl,     \* model.focusedControl
    brightnessValue,    \* model.brightnessValue (pending)
    temperatureValue,   \* model.temperatureValue (pending)
    message,            \* model.message
    quitting,           \* model.quitting
    dev,                \* address -> the state the device holds
    calls,              \* address -> the HTTP calls of the last command, in order
    cmd,                \* the last command (key pressed or command line)
    out,                \* outcome of the last command: exit code, printed lines
    discovering,        \* discovery goroutines in flight (key "d")
    steps,              \* commands so far
    par                 \* goroutines of the command in progress, where the
                        \* specification follows them step by step

vars == <<disk, config, lights, lightsList, selectedLightMode, focusedControl,
          brightnessValue, temperatureValue, message, quitting, dev, calls,
          cmd, out, discovering, steps, par>>

(***************************************************************************)
(* Bounds of the model.                                                    *)
(***************************************************************************)
MaxLights == 3
MaxSteps == 3
MaxFaulty == 1

(***************************************************************************)
(* Program constants.                                                      *)
(***************************************************************************)
MinBrightness == 3
MaxBrightness == 100
BrightnessStep == 5
MinTemperature == 2900
MaxTemperature == 7000
TemperatureStep == 200
DefaultBrightness == 50
DefaultTemperature == 4000
MaxAttempts == 3
Million == 1000000

allLights == "allLights"
light1 == "light1"
light2 == "light2"
lightMode == {allLights, light1, light2}

focusToggle == "focusToggle"
focusTurnOff == "focusTurnOff"
focusTurnOn == "focusTurnOn"
focusBrightness == "focusBrightness"
focusTemperature == "focusTemperature"
controlFocus ==
    {focusToggle, focusTurnOff, focusTurnOn, focusBrightness, focusTemperature}

(***************************************************************************)
(* Names and addresses.  Device names are 1..MaxLights; the device named n *)
(* answers at address IPOf(n).                                             *)
(***************************************************************************)
Names == 1..MaxLights
IPOf(n) == 100 + n
Addrs == {IPOf(n) : n \in Names}

Range(s) == {s[i] : i \in DOMAIN s}
Min(S) == CHOOSE x \in S : \A y \in S : x <= y

\* The orders in which a Go "range" over a map with key set S can run.
Perms(S) ==
    {p \in [1..Cardinality(S) -> S] : \A i, j \in DOMAIN p : i # j => p[i] # p[j]}

RECURSIVE Sum(_, _)
Sum(f, S) ==
    IF S = {} THEN 0
    ELSE LET x == CHOOSE y \in S : TRUE IN f[x] + Sum(f, S \ {x})

(***************************************************************************)
(* The settings store.                                                     *)
(***************************************************************************)
\* The Config that loadConfig returns when the file cannot be read or parsed.
DefaultConfig ==
    [lights |-> <<>>, lastBrightness |-> DefaultBrightness,
     lastTemperature |-> DefaultTemperature]

\* disk.ok says whether the file can be read and parsed; disk.cfg is its content.
loadConfig(d) == IF d.ok THEN d.cfg ELSE DefaultConfig

\* saveConfig writes the whole Config; the file is readable afterwards.
saveConfig(c) == [ok |-> TRUE, cfg |-> c]

(***************************************************************************)
(* Errors.  An error value carries its message, the attempt that produced  *)
(* it (0 outside toggleLightFast) and the message of the error it wraps.   *)
(***************************************************************************)
NoError == [msg |-> "nil", at |-> 0, cause |-> "none"]
Err(m, a) == [msg |-> m, at |-> a, cause |-> "none"]
Wrap(m, e) == [msg |-> m, at |-> e.at, cause |-> e.msg]

(***************************************************************************)
(* The device client.  s is the state the addressed device holds.          *)
(*   r: how the GET ends, one of GetReplies.  The commands are run with    *)
(*      the two ReadOutcomes: "ok", and "offline" for every failed read.   *)
(*   w: how the PUT ends ("ok": status 200; "offline": transport error,    *)
(*      the request did not reach the device; "rejected": other status).   *)
(* A call is logged as [op, patch, body, res, attempt]: patch is the set of *)
(* <<field, value>> pairs the caller asked to set (temperature in Kelvin), *)
(* body the pairs of the JSON light object that was sent (wire scale).     *)
(***************************************************************************)
ReadOutcomes == {"ok", "offline"}
WriteOutcomes == {"ok", "offline", "rejected"}

Call(op, patch, body, res, a) ==
    [op |-> op, patch |-> patch, body |-> body, res |-> res, attempt |-> a]

\* Kelvin -> wire scale rounded to the nearest integer instead of truncated.
KelvinToElgatoRounded(k) == (Million + (k \div 2)) \div k

\* Kelvin -> wire scale, as setLight computes it: int(1000000 / *temperature).
KelvinToElgato(k) == Million \div k

\* Wire scale -> Kelvin, as the read paths compute it: int(1000000/state.Temperature).
ElgatoToKelvin(t) == Million \div t

\* getLightState without its error returns: whatever the GET did, the caller
\* is handed a state and no error.
getLightStateUnchecked(ip, r, s) ==
    [err   |-> NoError,
     state |-> s,
     calls |-> <<Call("GET", {}, {}, r, 0)>>]

\* What can come back for a GET of /elgato/lights:
\*   "ok"          status 200, a body with the light's state;
\*   "offline"     a transport error (no connection, timeout);
\*   "undecodable" a body that does not decode as a LightsResponse;
\*   "empty"       a body that decodes with an empty list of lights;
\*   "two"         status 200, a body with two entries, the light's state first;
\*   "status"      a status other than 200 with a body that holds the light's state.
GetReplies == {"ok", "offline", "undecodable", "empty", "two", "status"}

\* The list of lights decoded from the body of a reply that has one.
Lights(r, s) ==
    CASE r = "empty" -> <<>>
      [] r = "two" -> <<s, [s EXCEPT !.on = 1 - @]>>
      [] OTHER -> <<s>>

\* getLightState: the first light of the reply, or an error.  The status of
\* the reply is not looked at.
getLightState(ip, r, s) ==
    [err   |-> CASE r = "offline" -> Err("get", 0)
                 [] r = "undecodable" -> Err("decode", 0)
                 [] OTHER -> IF Len(Lights(r, s)) > 0 THEN NoError
                             ELSE Err("no lights in response", 0),
     state |-> IF r \in {"offline", "undecodable"} \/ Len(Lights(r, s)) = 0 THEN s
               ELSE Lights(r, s)[1],
     calls |-> <<Call("GET", {}, {}, r, 0)>>]

\* A light object that always carries all three fields, the ones not supplied
\* with fixed values.
PayloadFull(patch) ==
    {<<f, IF \E p \in patch : p[1] = f
          THEN LET v == (CHOOSE p \in patch : p[1] = f)[2]
               IN  IF f = "temperature" THEN Million \div v ELSE v
          ELSE IF f = "on" THEN 1
          ELSE IF f = "brightness" THEN DefaultBrightness
          ELSE Million \div DefaultTemperature>> :
        f \in {"on", "brightness", "temperature"}}

\* The JSON light object setLight builds from its three optional arguments;
\* patch is the set of <<field, value>> pairs that are not nil, temperature in Kelvin.
Payload(patch) ==
    {<<p[1], IF p[1] = "temperature" THEN KelvinToElgato(p[2]) ELSE p[2]>> : p \in patch}

\* The device's store after it accepted a PUT with this body.
Accept(s, body) ==
    [on          |-> IF \E p \in body : p[1] = "on"
                     THEN (CHOOSE p \in body : p[1] = "on")[2] ELSE s.on,
     brightness  |-> IF \E p \in body : p[1] = "brightness"
                     THEN (CHOOSE p \in body : p[1] = "brightness")[2] ELSE s.brightness,
     temperature |-> IF \E p \in body : p[1] = "temperature"
                     THEN (CHOOSE p \in body : p[1] = "temperature")[2] ELSE s.temperature]

setLight(ip, patch, w, s) ==
    [err   |-> CASE w = "ok" -> NoError
                 [] w = "offline" -> Err("send", 0)
                 [] OTHER -> Err("status", 0),
     state |-> IF w = "ok" THEN Accept(s, Payload(patch)) ELSE s,
     calls |-> <<Call("PUT", patch, Payload(patch), w, 0)>>]

\* toggleLight that gives up when the read fails, as one attempt of the fast
\* toggle does.
toggleLightReadOrFail(ip, r, w, s) ==
    LET got == getLightState(ip, r, s)
        put == setLight(ip, {<<"on", IF got.state.on = 0 THEN 1 ELSE 0>>}, w, s)
    IN  IF got.err # NoError
        THEN [err |-> got.err, state |-> s, calls |-> got.calls]
        ELSE [err |-> put.err, state |-> put.state, calls |-> got.calls \o put.calls]

\* toggleLight that writes on=1 whatever it read.
toggleLightOn(ip, r, w, s) ==
    LET got == getLightState(ip, r, s)
        put == setLight(ip, {<<"on", 1>>}, w, s)
    IN  [err |-> put.err, state |-> put.state, calls |-> got.calls \o put.calls]

\* toggleLight: read, invert, write; if the read fails, write on=1.
toggleLight(ip, r, w, s) ==
    LET got == getLightState(ip, r, s)
        newState == IF got.err # NoError THEN 1
                    ELSE IF got.state.on = 0 THEN 1 ELSE 0
        put == setLight(ip, {<<"on", newState>>}, w, s)
    IN  [err |-> put.err, state |-> put.state, calls |-> got.calls \o put.calls]

\* toggleLightAttempt: one attempt of the fast toggle.  A failed read ends
\* the attempt; nothing is written.  A write that is "lost" reached the light,
\* and client.Do ran into its timeout before the reply arrived.
toggleLightAttempt(ip, r, w, s, attempt) ==
    IF r # "ok"
    THEN [err |-> Err("failed to get light state", attempt), state |-> s,
          calls |-> <<Call("GET", {}, {}, r, attempt)>>]
    ELSE LET newState == IF s.on = 0 THEN 1 ELSE 0
             body == {<<"on", newState>>}
         IN  [err   |-> CASE w = "ok" -> NoError
                          [] w \in {"offline", "lost"} ->
                               Err("failed to send toggle request", attempt)
                          [] OTHER -> Err("API returned status", attempt),
              state |-> IF w \in {"ok", "lost"} THEN Accept(s, body) ELSE s,
              calls |-> <<Call("GET", {}, {}, r, attempt),
                          Call("PUT", body, body, w, attempt)>>]

\* The loop of toggleLightFast from attempt on; outs[i] = <<r, w>> is what the
\* network does to attempt i.
RECURSIVE FastAttempts(_, _, _, _, _, _)
FastAttempts(ip, outs, s, attempt, lastErr, log) ==
    IF attempt > MaxAttempts
    THEN [err |-> Wrap("failed after 3 attempts", lastErr), state |-> s, calls |-> log]
    ELSE LET a == toggleLightAttempt(ip, outs[attempt][1], outs[attempt][2], s, attempt)
         IN  IF a.err = NoError
             THEN [err |-> NoError, state |-> a.state, calls |-> log \o a.calls]
             ELSE FastAttempts(ip, outs, a.state, attempt + 1, a.err, log \o a.calls)

\* toggleLightFast without the retry: one attempt decides.
toggleLightFastOnce(ip, outs, s) ==
    LET a == toggleLightAttempt(ip, outs[1][1], outs[1][2], s, 1)
    IN  [err   |-> IF a.err = NoError THEN NoError
                   ELSE Wrap("failed after 3 attempts", a.err),
         state |-> a.state,
         calls |-> a.calls]

\* toggleLightFast reporting the error of the first attempt, not of the last.
toggleLightFastFirstErr(ip, outs, s) ==
    LET res == FastAttempts(ip, outs, s, 1, NoError, <<>>)
        first == toggleLightAttempt(ip, outs[1][1], outs[1][2], s, 1)
    IN  IF res.err = NoError THEN res
        ELSE [res EXCEPT !.err = Wrap("failed after 3 attempts", first.err)]

toggleLightFast(ip, outs, s) == FastAttempts(ip, outs, s, 1, NoError, <<>>)

\* What the network can do to the attempts of one toggleLightFast.
\* One representative of each distinguishable course: no PUT follows a failed
\* GET, and no attempt follows a successful one.
AttemptOutcomes ==
    {o \in [1..MaxAttempts -> ReadOutcomes \X WriteOutcomes] :
        \A i \in 1..MaxAttempts :
            /\ o[i][1] # "ok" => o[i][2] = "offline"
            /\ \A j \in 1..(i - 1) : o[j] = <<"ok", "ok">> => o[i] = <<"ok", "ok">>}

(***************************************************************************)
(* What the network does during one command.  At most MaxFaulty of the     *)
(* addressed devices misbehave, or the whole network is down.              *)
(***************************************************************************)
WriteScenarios(T) ==
    {w \in [T -> WriteOutcomes] : Cardinality({a \in T : w[a] # "ok"}) <= MaxFaulty}
    \cup {[a \in T |-> "offline"]}

ReadScenarios(T) ==
    {r \in [T -> ReadOutcomes] : Cardinality({a \in T : r[a] # "ok"}) <= MaxFaulty}
    \cup {[a \in T |-> "offline"]}

\* <<r, w>> for commands that read and write each device.
NetScenarios(T) ==
    {n \in [T -> ReadOutcomes \X WriteOutcomes] :
        Cardinality({a \in T : n[a] # <<"ok", "ok">>}) <= MaxFaulty}
    \cup {[a \in T |-> <<"offline", "offline">>]}

(***************************************************************************)
(* What the environment can be at start-up.                                *)
(***************************************************************************)
\* The registry with the first k devices.
Registry(k) == [n \in 1..k |-> IPOf(n)]
Registries == {Registry(k) : k \in 0..MaxLights}

\* States a device can hold at start-up: the two ends and the middle of the
\* wire range, and a light whose reply carries no temperature (decoded as 0).
CoolDim == [on |-> 1, brightness |-> 40, temperature |-> 143]
WarmMid == [on |-> 0, brightness |-> 60, temperature |-> 344]
FullOn == [on |-> 1, brightness |-> 100, temperature |-> 250]
NoTemp == [on |-> 0, brightness |-> 3, temperature |-> 0]
DeviceProfiles == {CoolDim, WarmMid, FullOn, NoTemp}

\* <<lastBrightness, lastTemperature>> of a settings file at start-up: absent
\* (0), near the lower ends, near the upper ends, and edited out of range.
StoredDefaults == {<<0, 0>>, <<5, 3000>>, <<98, 6900>>, <<150, 9000>>}

DiskInits ==
    {[ok |-> TRUE,
      cfg |-> [lights |-> reg, lastBrightness |-> sd[1], lastTemperature |-> sd[2]]] :
        reg \in Registries \ {<<>>}, sd \in StoredDefaults}
    \cup {[ok |-> FALSE, cfg |-> DefaultConfig]}

NoCalls == [a \in Addrs |-> <<>>]
\* No goroutine is followed: the command is one step.
NoPar == [pc |-> "none", task |-> [a \in {} |-> "ready"]]
\* What a command line leaves: its exit code, the line that sums it up, the
\* error printed with it, and for "status" the <<power, brightness, Kelvin>>
\* printed for each light.
NoShown == [a \in {} |-> <<>>]
NoOutput == [exit |-> 0, msg |-> "none", err |-> NoError, shown |-> NoShown]
\* A command: how main started the process ("init"), a key of the session,
\* or the words of a command line.  target
\* and arg are strings of the command line, as sequences of characters.
Cmd(src, name, target, arg) ==
    [src |-> src, name |-> name, target |-> target, arg |-> arg]

(***************************************************************************)
(* The interactive session.                                                *)
(***************************************************************************)
\* initialModel without the replacement of absent (zero) defaults.
initialModelNoDefaults(d, order) ==
    LET cfg == loadConfig(d)
    IN  [config |-> cfg, lights |-> cfg.lights, lightsList |-> order,
         selectedLightMode |-> allLights, focusedControl |-> focusToggle,
         brightnessValue |-> cfg.lastBrightness,
         temperatureValue |-> cfg.lastTemperature]

\* initialModel: the settings are loaded, zero defaults are replaced, the
\* names are listed in the order the map iteration happened to give.
initialModel(d, order) ==
    LET loaded == loadConfig(d)
        cfg == [loaded EXCEPT
                  !.lastBrightness = IF @ = 0 THEN DefaultBrightness ELSE @,
                  !.lastTemperature = IF @ = 0 THEN DefaultTemperature ELSE @]
    IN  [config |-> cfg, lights |-> cfg.lights, lightsList |-> order,
         selectedLightMode |-> allLights, focusedControl |-> focusToggle,
         brightnessValue |-> cfg.lastBrightness,
         temperatureValue |-> cfg.lastTemperature]

\* The session starts with every second device on.
SessionDevices == [a \in Addrs |-> IF a % 2 = 1 THEN CoolDim ELSE WarmMid]

\* runTUI before the session starts: with no light in the settings it runs
\* the discovery and saves what it found; if nothing is found the process
\* exits and there is no session.  The result is the settings file(s) that
\* initialModel can then load.  saveConfig drops the errors of os.MkdirAll
\* and os.WriteFile: where the file could not be read, the write may fail as
\* well and leave it as it was.
runTUI(d) ==
    IF loadConfig(d).lights # <<>> THEN {d}
    ELSE {saveConfig([loadConfig(d) EXCEPT !.lights = found]) :
            found \in Registries \ {<<>>}}
         \cup (IF d.ok THEN {} ELSE {d})

Init ==
    \E d0 \in DiskInits :
     \E d \in runTUI(d0) :
      \E order \in Perms(DOMAIN loadConfig(d).lights) :
        LET m == initialModel(d, order) IN
        /\ disk = d
        /\ config = m.config
        /\ lights = m.lights
        /\ lightsList = m.lightsList
        /\ selectedLightMode = m.selectedLightMode
        /\ focusedControl = m.focusedControl
        /\ brightnessValue = m.brightnessValue
        /\ temperatureValue = m.temperatureValue
        /\ message = ""
        /\ quitting = FALSE
        /\ dev = SessionDevices
        /\ calls = NoCalls
        /\ cmd = Cmd("init", "runTUI", <<>>, <<>>)
        /\ out = NoOutput
        /\ discovering = 0
        /\ steps = 0
        /\ par = NoPar

\* getSelectedLightIPs with the light2 case testing for one listed name
\* and taking the last.
getSelectedLightIPsLast(mode, ls, list, order) ==
    CASE mode = allLights -> [i \in 1..Len(order) |-> ls[order[i]]]
      [] mode = light1 -> IF Len(list) >= 1 THEN <<ls[list[1]]>> ELSE <<>>
      [] mode = light2 -> IF Len(list) >= 1 THEN <<ls[list[Len(list)]]>> ELSE <<>>

\* getSelectedLightIPs; order is the order in which the range over m.lights runs.
getSelectedLightIPs(mode, ls, list, order) ==
    CASE mode = allLights -> [i \in 1..Len(order) |-> ls[order[i]]]
      [] mode = light1 -> IF Len(list) >= 1 THEN <<ls[list[1]]>> ELSE <<>>
      [] mode = light2 -> IF Len(list) >= 2 THEN <<ls[list[2]]>> ELSE <<>>

\* The orders in which the session's range over m.lights can run.  The loops
\* that handle every address alike are modelled with one of them.
MapOrders(ls) == Perms(DOMAIN ls)
SomeOrder(ls) == [i \in 1..Cardinality(DOMAIN ls) |-> i]

\* A key press: the part every handler shares.
Key(k) ==
    /\ steps < MaxSteps
    /\ ~quitting
    /\ steps' = steps + 1
    /\ cmd' = Cmd("key", k, <<>>, <<>>)
    /\ UNCHANGED <<lights, lightsList, out, par>>

Idle == UNCHANGED <<disk, config, dev, discovering>> /\ calls' = NoCalls

KeyA ==
    /\ Key("a")
    /\ selectedLightMode' = allLights
    /\ message' = "Controlling all lights"
    /\ Idle
    /\ UNCHANGED <<focusedControl, brightnessValue, temperatureValue, quitting>>

Key1 ==
    /\ Key("1")
    /\ IF Len(lightsList) >= 1
       THEN selectedLightMode' = light1 /\ message' = "Controlling light 1"
       ELSE UNCHANGED <<selectedLightMode, message>>
    /\ Idle
    /\ UNCHANGED <<focusedControl, brightnessValue, temperatureValue, quitting>>

\* Key "2" without the test for a second listed name.
Key2Unguarded ==
    /\ Key("2")
    /\ selectedLightMode' = light2
    /\ message' = "Controlling light 2"
    /\ Idle
    /\ UNCHANGED <<focusedControl, brightnessValue, temperatureValue, quitting>>

Key2 ==
    /\ Key("2")
    /\ IF Len(lightsList) >= 2
       THEN selectedLightMode' = light2 /\ message' = "Controlling light 2"
       ELSE UNCHANGED <<selectedLightMode, message>>
    /\ Idle
    /\ UNCHANGED <<focusedControl, brightnessValue, temperatureValue, quitting>>

KeyQuit ==
    /\ Key("q")
    /\ quitting' = TRUE
    /\ Idle
    /\ UNCHANGED <<selectedLightMode, focusedControl, brightnessValue,
                   temperatureValue, message>>

\* Key "up" that leaves the temperature row for the button row.
KeyUpToRow ==
    /\ Key("up")
    /\ focusedControl' =
          IF focusedControl \in {focusBrightness, focusTemperature} THEN focusToggle
          ELSE focusedControl
    /\ Idle
    /\ UNCHANGED <<selectedLightMode, brightnessValue, temperatureValue,
                   message, quitting>>

KeyUp ==
    /\ Key("up")
    /\ focusedControl' =
          IF focusedControl = focusBrightness THEN focusToggle
          ELSE IF focusedControl = focusTemperature THEN focusBrightness
          ELSE focusedControl
    /\ Idle
    /\ UNCHANGED <<selectedLightMode, brightnessValue, temperatureValue,
                   message, quitting>>

KeyDown ==
    /\ Key("down")
    /\ focusedControl' =
          IF focusedControl \in {focusToggle, focusTurnOff, focusTurnOn}
          THEN focusBrightness
          ELSE IF focusedControl = focusBrightness THEN focusTemperature
          ELSE focusedControl
    /\ Idle
    /\ UNCHANGED <<selectedLightMode, brightnessValue, temperatureValue,
                   message, quitting>>

KeyLeft ==
    /\ Key("left")
    /\ focusedControl' =
          IF focusedControl = focusTurnOff THEN focusToggle
          ELSE IF focusedControl = focusTurnOn THEN focusTurnOff
          ELSE focusedControl
    /\ brightnessValue' =
          IF focusedControl = focusBrightness
          THEN IF brightnessValue - BrightnessStep < MinBrightness
               THEN MinBrightness ELSE brightnessValue - BrightnessStep
          ELSE brightnessValue
    /\ temperatureValue' =
          IF focusedControl = focusTemperature
          THEN IF temperatureValue - TemperatureStep < MinTemperature
               THEN MinTemperature ELSE temperatureValue - TemperatureStep
          ELSE temperatureValue
    /\ Idle
    /\ UNCHANGED <<selectedLightMode, message, quitting>>

\* Key "right" that goes on from the last button to the brightness row.
KeyRightOn ==
    /\ Key("right")
    /\ focusedControl' =
          IF focusedControl = focusToggle THEN focusTurnOff
          ELSE IF focusedControl = focusTurnOff THEN focusTurnOn
          ELSE IF focusedControl = focusTurnOn THEN focusBrightness
          ELSE focusedControl
    /\ brightnessValue' =
          IF focusedControl = focusBrightness
          THEN IF brightnessValue + BrightnessStep > MaxBrightness
               THEN MaxBrightness ELSE brightnessValue + BrightnessStep
          ELSE brightnessValue
    /\ temperatureValue' =
          IF focusedControl = focusTemperature
          THEN IF temperatureValue + TemperatureStep > MaxTemperature
               THEN MaxTemperature ELSE temperatureValue + TemperatureStep
          ELSE temperatureValue
    /\ Idle
    /\ UNCHANGED <<selectedLightMode, message, quitting>>

KeyRight ==
    /\ Key("right")
    /\ focusedControl' =
          IF focusedControl = focusToggle THEN focusTurnOff
          ELSE IF focusedControl = focusTurnOff THEN focusTurnOn
          ELSE focusedControl
    /\ brightnessValue' =
          IF focusedControl = focusBrightness
          THEN IF brightnessValue + BrightnessStep > MaxBrightness
               THEN MaxBrightness ELSE brightnessValue + BrightnessStep
          ELSE brightnessValue
    /\ temperatureValue' =
          IF focusedControl = focusTemperature
          THEN IF temperatureValue + TemperatureStep > MaxTemperature
               THEN MaxTemperature ELSE temperatureValue + TemperatureStep
          ELSE temperatureValue
    /\ Idle
    /\ UNCHANGED <<selectedLightMode, message, quitting>>

\* The devices and the call log after a loop over the addresses T that left
\* res[a] = [state, calls, ...] for each of them.
DevAfter(T, res, d) == [a \in Addrs |-> IF a \in T THEN res[a].state ELSE d[a]]
CallsAfter(T, res) == [a \in Addrs |-> IF a \in T THEN res[a].calls ELSE <<>>]

\* Index of the first address of ips whose write fails, 0 if none does.
FirstFail(ips, w) ==
    LET F == {i \in 1..Len(ips) : w[ips[i]] # "ok"}
    IN  IF F = {} THEN 0 ELSE Min(F)

\* The addresses that the loop of activateControl's focusBrightness and
\* focusTemperature cases calls: it breaks at the first error.
CalledUntilError(ips, w) ==
    LET k == FirstFail(ips, w)
    IN  {ips[i] : i \in 1..(IF k = 0 THEN Len(ips) ELSE k)}

\* Enter with a commit that falls back to the selection of all lights.
EnterResetting(focus) ==
    /\ Key("enter")
    /\ focusedControl = focus
    /\ selectedLightMode' = allLights
    /\ UNCHANGED <<focusedControl, brightnessValue, temperatureValue,
                   quitting, discovering>>

Enter(focus) ==
    /\ Key("enter")
    /\ focusedControl = focus
    /\ UNCHANGED <<selectedLightMode, focusedControl, brightnessValue,
                   temperatureValue, quitting, discovering>>

\* activateControl, case focusToggle: toggleLights.
EnterToggle ==
    /\ Enter(focusToggle)
    /\ LET ips == getSelectedLightIPs(selectedLightMode, lights, lightsList,
                                      SomeOrder(lights))
           T == Range(ips)
       IN  \E n \in NetScenarios(T) :
             LET res == [a \in T |-> toggleLight(a, n[a][1], n[a][2], dev[a])]
                 errorCount == Cardinality({i \in 1..Len(ips) : res[ips[i]].err # NoError})
                 successCount == Len(ips) - errorCount
             IN  /\ dev' = DevAfter(T, res, dev)
                 /\ calls' = CallsAfter(T, res)
                 /\ message' =
                      IF errorCount = 0 /\ successCount > 0 THEN "lights toggled"
                      ELSE IF errorCount > 0 THEN "Error toggling lights"
                      ELSE message
    /\ UNCHANGED <<disk, config>>

\* activateControl, cases focusTurnOff and focusTurnOn: errors are ignored.
EnterPower(focus, state, msg) ==
    /\ Enter(focus)
    /\ LET ips == getSelectedLightIPs(selectedLightMode, lights, lightsList,
                                      SomeOrder(lights))
           T == Range(ips)
       IN  \E w \in WriteScenarios(T) :
             LET res == [a \in T |-> setLight(a, {<<"on", state>>}, w[a], dev[a])]
             IN  /\ dev' = DevAfter(T, res, dev)
                 /\ calls' = CallsAfter(T, res)
    /\ message' = msg
    /\ UNCHANGED <<disk, config>>

EnterTurnOff == EnterPower(focusTurnOff, 0, "Lights turned off")

EnterTurnOn == EnterPower(focusTurnOn, 1, "Lights turned on")

\* activateControl, case focusBrightness.
EnterBrightness ==
    /\ Enter(focusBrightness)
    /\ \E order \in MapOrders(lights) :
         LET ips == getSelectedLightIPs(selectedLightMode, lights, lightsList, order)
         IN  \E w \in WriteScenarios(Range(ips)) :
               LET T == CalledUntilError(ips, w)
                   res == [a \in T |->
                             setLight(a, {<<"brightness", brightnessValue>>}, w[a], dev[a])]
                   success == FirstFail(ips, w) = 0
               IN  /\ dev' = DevAfter(T, res, dev)
                   /\ calls' = CallsAfter(T, res)
                   /\ IF success
                      THEN /\ config' = [config EXCEPT !.lastBrightness = brightnessValue]
                           /\ disk' = saveConfig(config')
                           /\ message' = "Brightness set"
                      ELSE /\ message' = "Error setting brightness"
                           /\ UNCHANGED <<disk, config>>

\* activateControl, case focusTemperature.
EnterTemperature ==
    /\ Enter(focusTemperature)
    /\ \E order \in MapOrders(lights) :
         LET ips == getSelectedLightIPs(selectedLightMode, lights, lightsList, order)
         IN  \E w \in WriteScenarios(Range(ips)) :
               LET T == CalledUntilError(ips, w)
                   res == [a \in T |->
                             setLight(a, {<<"temperature", temperatureValue>>}, w[a], dev[a])]
                   success == FirstFail(ips, w) = 0
               IN  /\ dev' = DevAfter(T, res, dev)
                   /\ calls' = CallsAfter(T, res)
                   /\ IF success
                      THEN /\ config' = [config EXCEPT !.lastTemperature = temperatureValue]
                           /\ disk' = saveConfig(config')
                           /\ message' = "Temperature set"
                      ELSE /\ message' = "Error setting temperature"
                           /\ UNCHANGED <<disk, config>>

(***************************************************************************)
(* Key "d": Update starts discoverLights(&m) as a goroutine on its own     *)
(* copy of the model and returns.  The copy shares only the *Config with   *)
(* the session, so of the goroutine's writes the session sees the one to   *)
(* config.Lights; m.lights and m.message are written on the copy.          *)
(***************************************************************************)
KeyD ==
    /\ Key("d")
    /\ message' = "Discovering lights..."
    /\ discovering' = discovering + 1
    /\ calls' = NoCalls
    /\ UNCHANGED <<disk, config, dev, selectedLightMode, focusedControl,
                   brightnessValue, temperatureValue, quitting>>

\* discoverLights after its time budget: found is what the browse collected,
\* kept in cmd.target.
DiscoverDone ==
    /\ discovering > 0
    /\ discovering' = discovering - 1
    /\ \E found \in Registries :
       /\ IF found # <<>>
         THEN /\ config' = [config EXCEPT !.lights = found]
              /\ disk' = saveConfig(config')
         ELSE UNCHANGED <<disk, config>>
       /\ cmd' = Cmd("go", "discoverLights", found, <<>>)
    /\ calls' = NoCalls
    /\ UNCHANGED <<lights, lightsList, selectedLightMode, focusedControl,
                   brightnessValue, temperatureValue, message, quitting, dev,
                   out, steps, par>>

Next ==
    \/ KeyA \/ Key1 \/ Key2 \/ KeyQuit \/ KeyD
    \/ KeyUp \/ KeyDown \/ KeyLeft \/ KeyRight
    \/ EnterToggle \/ EnterTurnOff \/ EnterTurnOn
    \/ EnterBrightness \/ EnterTemperature
    \/ DiscoverDone

(***************************************************************************)
(* The refresh of key "d" followed write by write.  After its time budget  *)
(* discoverLights assigns m.config.Lights, then saveConfig marshals the    *)
(* Config and writes the file; the input loop runs on its own goroutine    *)
(* and nothing orders its steps with these.  One refresh is followed at a  *)
(* time; par.data is what the goroutine's saveConfig has marshalled.       *)
(***************************************************************************)
DiscoverStep ==
    /\ cmd' = Cmd("go", "discoverLights", <<>>, <<>>)
    /\ calls' = NoCalls
    /\ UNCHANGED <<lights, lightsList, selectedLightMode, focusedControl,
                   brightnessValue, temperatureValue, message, quitting, dev,
                   out, steps>>

\* m.config.Lights = discovered, or the end of a refresh that found nothing.
DiscoverSwap ==
    /\ discovering > 0
    /\ par.pc = "none"
    /\ \E found \in Registries :
         IF found # <<>>
         THEN /\ config' = [config EXCEPT !.lights = found]
              /\ par' = [pc |-> "swapped", data |-> config]
              /\ UNCHANGED <<disk, discovering>>
         ELSE /\ discovering' = discovering - 1
              /\ UNCHANGED <<disk, config, par>>
    /\ DiscoverStep

\* saveConfig(m.config): json.MarshalIndent reads the Config.
DiscoverMarshal ==
    /\ par.pc = "swapped"
    /\ par' = [pc |-> "marshalled", data |-> config]
    /\ UNCHANGED <<disk, config, discovering>>
    /\ DiscoverStep

\* saveConfig(m.config): os.WriteFile writes what was marshalled.
DiscoverWrite ==
    /\ par.pc = "marshalled"
    /\ disk' = saveConfig(par.data)
    /\ par' = NoPar
    /\ discovering' = discovering - 1
    /\ UNCHANGED config
    /\ DiscoverStep

NextRace ==
    \/ KeyA \/ Key1 \/ Key2 \/ KeyQuit \/ KeyD
    \/ KeyUp \/ KeyDown \/ KeyLeft \/ KeyRight
    \/ EnterToggle \/ EnterTurnOff \/ EnterTurnOn
    \/ EnterBrightness \/ EnterTemperature
    \/ DiscoverSwap \/ DiscoverMarshal \/ DiscoverWrite

SpecRace == Init /\ [][NextRace]_vars

Spec == Init /\ [][Next]_vars

(***************************************************************************)
(* The one-shot commands.                                                  *)
(***************************************************************************)
\* Strings of the command line are sequences of characters.
Digits == <<"0", "1", "2", "3", "4", "5", "6", "7", "8", "9">>
IsDigit(c) == \E i \in 1..10 : Digits[i] = c
DigitVal(c) == (CHOOSE i \in 1..10 : Digits[i] = c) - 1

RECURSIVE Itoa(_)
Itoa(k) == IF k < 10 THEN <<Digits[k + 1]>> ELSE Itoa(k \div 10) \o <<Digits[(k % 10) + 1]>>

\* The value of the longest run of digits at the start of str, and its length.
RECURSIVE ScanDigits(_, _, _)
ScanDigits(str, acc, len) ==
    IF str # <<>> /\ IsDigit(Head(str))
    THEN ScanDigits(Tail(str), 10 * acc + DigitVal(Head(str)), len + 1)
    ELSE [val |-> acc, len |-> len]

\* fmt.Sscanf(str, "%d", &v): an optional sign, then digits; what follows the
\* digits is left unread.  n is the number of items scanned.
Sscanf(str) ==
    LET signed == str # <<>> /\ Head(str) \in {"+", "-"}
        d == ScanDigits(IF signed THEN Tail(str) ELSE str, 0, 0)
    IN  [n   |-> IF d.len > 0 THEN 1 ELSE 0,
         val |-> IF signed /\ Head(str) = "-" THEN 0 - d.val ELSE d.val]

\* The settings files and devices a command line can find.
CliDisks ==
    {[ok |-> TRUE,
      cfg |-> [lights |-> reg, lastBrightness |-> DefaultBrightness,
               lastTemperature |-> DefaultTemperature]] : reg \in Registries}
    \cup {[ok |-> FALSE, cfg |-> DefaultConfig]}

DeviceInits(reg) ==
    {d \in [Addrs -> DeviceProfiles] :
        \A a \in Addrs : a \notin Range(reg) => d[a] = WarmMid}

InitCLI ==
    /\ disk \in CliDisks
    /\ dev \in DeviceInits(loadConfig(disk).lights)
    /\ config = loadConfig(disk)
    /\ lights = <<>>
    /\ lightsList = <<>>
    /\ selectedLightMode = allLights
    /\ focusedControl = focusToggle
    /\ brightnessValue = DefaultBrightness
    /\ temperatureValue = DefaultTemperature
    /\ message = ""
    /\ quitting = FALSE
    /\ calls = NoCalls
    /\ cmd = Cmd("init", "handleCLI", <<>>, <<>>)
    /\ out = NoOutput
    /\ discovering = 0
    /\ steps = 0
    /\ par = NoPar

SessionVars == <<lights, lightsList, selectedLightMode, focusedControl,
                 brightnessValue, temperatureValue, message, quitting, discovering>>
Session == <<SessionVars, par>>

\* handleCLI: one process per command line; it loads the settings first.
Invoke(k, name, target, arg) ==
    /\ steps = k
    /\ steps' = steps + 1
    /\ cmd' = Cmd("cli", name, target, arg)
    /\ UNCHANGED Session

\* A one-shot process runs one command line and exits.
Run(name, target, arg) == Invoke(0, name, target, arg)

\* handleCLI without its check of the registry.
NoLightsUnchecked(name) == FALSE

\* handleCLI's check before the dispatch.
NoLights(name) == loadConfig(disk).lights = <<>> /\ name \notin {"detect", "help"}

Exit(code, msg) == out' = [exit |-> code, msg |-> msg, err |-> NoError, shown |-> NoShown]

\* A command that ends without a call to any device and without a save.
Refuse(code, msg) ==
    /\ Exit(code, msg)
    /\ calls' = NoCalls
    /\ config' = loadConfig(disk)
    /\ UNCHANGED <<disk, dev>>

\* cliTurnOn / cliTurnOff that store the full brightness as the default.
CliPowerSaving(name, state) ==
    /\ Run(name, <<>>, <<>>)
    /\ IF NoLights(name) THEN Refuse(1, "No lights configured")
       ELSE LET cfg == loadConfig(disk)
                T == Range(cfg.lights)
            IN  \E w \in WriteScenarios(T) :
                  LET res == [a \in T |-> setLight(a, {<<"on", state>>}, w[a], dev[a])]
                  IN  /\ dev' = DevAfter(T, res, dev)
                      /\ calls' = CallsAfter(T, res)
                      /\ config' = [cfg EXCEPT !.lastBrightness = MaxBrightness]
                      /\ disk' = saveConfig(config')
                      /\ Exit(0, "done")

\* cliTurnOn / cliTurnOff: one goroutine per light, each with one setLight;
\* the results are collected from the channel.
CliPower(name, state) ==
    /\ Run(name, <<>>, <<>>)
    /\ IF NoLights(name) THEN Refuse(1, "No lights configured")
       ELSE LET cfg == loadConfig(disk)
                T == Range(cfg.lights)
            IN  \E w \in WriteScenarios(T) :
                  LET res == [a \in T |-> setLight(a, {<<"on", state>>}, w[a], dev[a])]
                  IN  /\ dev' = DevAfter(T, res, dev)
                      /\ calls' = CallsAfter(T, res)
                      /\ config' = cfg
                      /\ Exit(0, "done")
                      /\ UNCHANGED disk

CliOn == CliPower("on", 1)

CliOff == CliPower("off", 0)

\* One pass of the loops of "bright +" / "bright -": the light's own value is
\* read, moved by the step, clamped on the side it moves to, and written.
adjustBrightness(ip, up, r, w, s) ==
    LET got == getLightState(ip, r, s)
        moved == IF up THEN got.state.brightness + BrightnessStep
                 ELSE got.state.brightness - BrightnessStep
        newBright == IF up THEN (IF moved > MaxBrightness THEN MaxBrightness ELSE moved)
                     ELSE (IF moved < MinBrightness THEN MinBrightness ELSE moved)
        put == setLight(ip, {<<"brightness", newBright>>}, w, s)
    IN  IF got.err # NoError
        THEN [err |-> got.err, state |-> s, calls |-> got.calls]
        ELSE [err |-> put.err, state |-> put.state, calls |-> got.calls \o put.calls]

\* The arguments tried for "bright": the three operators, the ends of the
\* range, the values next to them, no number, and a number with a tail.
BrightArgs ==
    {<<"+">>, <<"-">>, <<"=">>, Itoa(MinBrightness), Itoa(MaxBrightness),
     Itoa(MinBrightness - 1), Itoa(MaxBrightness + 1), <<"x">>, <<"7", "x">>}

\* cliBrightness with os.Args[2] = action.
cliBrightness(action) ==
    LET cfg == loadConfig(disk)
        T == Range(cfg.lights)
    IN
    CASE action \in {<<"+">>, <<"-">>} ->
           \E n \in NetScenarios(T) :
             LET res == [a \in T |->
                           adjustBrightness(a, action = <<"+">>, n[a][1], n[a][2], dev[a])]
             IN  /\ dev' = DevAfter(T, res, dev)
                 /\ calls' = CallsAfter(T, res)
                 /\ config' = cfg
                 /\ Exit(0, "done")
                 /\ UNCHANGED disk
      [] action = <<"=">> ->
           \E n \in NetScenarios(T) :
             LET read == [a \in T |-> getLightState(a, n[a][1], dev[a])]
                 readable == {a \in T : read[a].err = NoError}
                 totalBright == Sum([a \in readable |-> read[a].state.brightness], readable)
                 count == Cardinality(readable)
             IN  IF count = 0
                 THEN /\ calls' = CallsAfter(T, read)
                      /\ config' = cfg
                      /\ Exit(0, "Could not read any lights")
                      /\ UNCHANGED <<disk, dev>>
                 ELSE LET avgBright == totalBright \div count
                          res == [a \in T |->
                                    LET put == setLight(a, {<<"brightness", avgBright>>},
                                                        n[a][2], dev[a])
                                    IN  [state |-> put.state,
                                         calls |-> read[a].calls \o put.calls]]
                      IN  /\ dev' = DevAfter(T, res, dev)
                          /\ calls' = CallsAfter(T, res)
                          /\ config' = cfg
                          /\ Exit(0, "done")
                          /\ UNCHANGED disk
      [] OTHER ->
           LET scan == Sscanf(action)
               brightness == scan.val
           IN  IF scan.n # 1 THEN Refuse(1, "Invalid brightness value")
               ELSE IF brightness < MinBrightness \/ brightness > MaxBrightness
               THEN Refuse(1, "Brightness must be between 3 and 100")
               ELSE \E w \in WriteScenarios(T) :
                      LET res == [a \in T |->
                                    setLight(a, {<<"brightness", brightness>>}, w[a], dev[a])]
                      IN  /\ dev' = DevAfter(T, res, dev)
                          /\ calls' = CallsAfter(T, res)
                          /\ config' = [cfg EXCEPT !.lastBrightness = brightness]
                          /\ disk' = saveConfig(config')
                          /\ Exit(0, "done")

CliBright ==
    \E action \in BrightArgs :
      /\ Run("bright", <<>>, action)
      /\ IF NoLights("bright") THEN Refuse(1, "No lights configured")
         ELSE cliBrightness(action)

\* "keylight bright" without an argument.
CliBrightUsage ==
    /\ Run("bright", <<>>, <<>>)
    /\ IF NoLights("bright") THEN Refuse(1, "No lights configured")
       ELSE Refuse(1, "Usage: keylight bright")

\* The lights whose reply makes int(1000000 / state.Temperature) divide by
\* zero: the read succeeds and reports temperature 0.  The process panics.
ZeroTemp(T, n, d) == {a \in T : n[a][1] = "ok" /\ d[a].temperature = 0}

\* The orders in which a loop over the lights can run, as sequences of
\* addresses; the order matters only if some pass of the loop panics.
LoopOrders(ls, Z) ==
    IF Z = {} THEN {[i \in 1..Cardinality(DOMAIN ls) |-> ls[i]]}
    ELSE {[i \in 1..Len(o) |-> ls[o[i]]] : o \in MapOrders(ls)}

\* Index of the first address of ips that is in Z, 0 if none is.
FirstIn(ips, Z) ==
    LET F == {i \in 1..Len(ips) : ips[i] \in Z}
    IN  IF F = {} THEN 0 ELSE Min(F)

\* The addresses of ips before index p (all of them if p = 0).
Before(ips, p) == {ips[i] : i \in 1..(IF p = 0 THEN Len(ips) ELSE p - 1)}

PanicExit == [exit |-> 2, msg |-> "panic: integer divide by zero", err |-> NoError, shown |-> NoShown]

\* One pass of the loops of "temp +" / "temp -" for a light whose reported
\* temperature is not 0.
adjustTemperature(ip, up, r, w, s) ==
    LET got == getLightState(ip, r, s)
        currentTemp == ElgatoToKelvin(got.state.temperature)
        moved == IF up THEN currentTemp + TemperatureStep
                 ELSE currentTemp - TemperatureStep
        newTemp == IF up THEN (IF moved > MaxTemperature THEN MaxTemperature ELSE moved)
                   ELSE (IF moved < MinTemperature THEN MinTemperature ELSE moved)
        put == setLight(ip, {<<"temperature", newTemp>>}, w, s)
    IN  IF got.err # NoError
        THEN [err |-> got.err, state |-> s, calls |-> got.calls]
        ELSE [err |-> put.err, state |-> put.state, calls |-> got.calls \o put.calls]

TempArgs ==
    {<<"+">>, <<"-">>, <<"=">>, Itoa(MinTemperature), Itoa(MaxTemperature),
     Itoa(MinTemperature - 1), Itoa(MaxTemperature + 1), <<"x">>}

\* cliTemperature with os.Args[2] = action.
cliTemperature(action) ==
    LET cfg == loadConfig(disk)
        T == Range(cfg.lights)
    IN
    CASE action \in {<<"+">>, <<"-">>} ->
           \E n \in NetScenarios(T) :
             \E ips \in LoopOrders(cfg.lights, ZeroTemp(T, n, dev)) :
               LET p == FirstIn(ips, ZeroTemp(T, n, dev))
                   done == Before(ips, p)
                   res == [a \in T |->
                             IF a \in done
                             THEN adjustTemperature(a, action = <<"+">>, n[a][1], n[a][2], dev[a])
                             ELSE IF p # 0 /\ a = ips[p]
                             THEN getLightState(a, n[a][1], dev[a])
                             ELSE [state |-> dev[a], calls |-> <<>>]]
               IN  /\ dev' = DevAfter(T, res, dev)
                   /\ calls' = CallsAfter(T, res)
                   /\ config' = cfg
                   /\ out' = IF p = 0 THEN [exit |-> 0, msg |-> "done", err |-> NoError, shown |-> NoShown]
                             ELSE PanicExit
                   /\ UNCHANGED disk
      [] action = <<"=">> ->
           \E n \in NetScenarios(T) :
             \E ips \in LoopOrders(cfg.lights, ZeroTemp(T, n, dev)) :
               LET p == FirstIn(ips, ZeroTemp(T, n, dev))
                   asked == IF p = 0 THEN T ELSE Before(ips, p) \cup {ips[p]}
                   read == [a \in T |->
                              IF a \in asked THEN getLightState(a, n[a][1], dev[a])
                              ELSE [err |-> NoError, state |-> dev[a], calls |-> <<>>]]
                   readable == {a \in T : read[a].err = NoError}
                   count == Cardinality(readable)
               IN  IF p # 0
                   THEN /\ calls' = CallsAfter(T, read)
                        /\ config' = cfg
                        /\ out' = PanicExit
                        /\ UNCHANGED <<disk, dev>>
                   ELSE IF count = 0
                   THEN /\ calls' = CallsAfter(T, read)
                        /\ config' = cfg
                        /\ Exit(0, "Could not read any lights")
                        /\ UNCHANGED <<disk, dev>>
                   ELSE LET totalTemp ==
                              Sum([a \in readable |->
                                     ElgatoToKelvin(read[a].state.temperature)], readable)
                            avgTemp == totalTemp \div count
                            res == [a \in T |->
                                      LET put == setLight(a, {<<"temperature", avgTemp>>},
                                                          n[a][2], dev[a])
                                      IN  [state |-> put.state,
                                           calls |-> read[a].calls \o put.calls]]
                        IN  /\ dev' = DevAfter(T, res, dev)
                            /\ calls' = CallsAfter(T, res)
                            /\ config' = cfg
                            /\ Exit(0, "done")
                            /\ UNCHANGED disk
      [] OTHER ->
           LET scan == Sscanf(action)
               temperature == scan.val
           IN  IF scan.n # 1 THEN Refuse(1, "Invalid temperature value")
               ELSE IF temperature < MinTemperature \/ temperature > MaxTemperature
               THEN Refuse(1, "Temperature must be between 2900K and 7000K")
               ELSE \E w \in WriteScenarios(T) :
                      LET res == [a \in T |->
                                    setLight(a, {<<"temperature", temperature>>}, w[a], dev[a])]
                      IN  /\ dev' = DevAfter(T, res, dev)
                          /\ calls' = CallsAfter(T, res)
                          /\ config' = [cfg EXCEPT !.lastTemperature = temperature]
                          /\ disk' = saveConfig(config')
                          /\ Exit(0, "done")

CliTemp ==
    \E action \in TempArgs :
      /\ Run("temp", <<>>, action)
      /\ IF NoLights("temp") THEN Refuse(1, "No lights configured")
         ELSE cliTemperature(action)

\* "keylight temp" without an argument.
CliTempUsage ==
    /\ Run("temp", <<>>, <<>>)
    /\ IF NoLights("temp") THEN Refuse(1, "No lights configured")
       ELSE Refuse(1, "Usage: keylight temp")

\* cliStatus: every light is read and its temperature converted to Kelvin.
cliStatus ==
    LET cfg == loadConfig(disk)
        T == Range(cfg.lights)
    IN  \E r \in ReadScenarios(T) :
          LET n == [a \in T |-> <<r[a], "ok">>] IN
          \E ips \in LoopOrders(cfg.lights, ZeroTemp(T, n, dev)) :
            LET p == FirstIn(ips, ZeroTemp(T, n, dev))
                asked == IF p = 0 THEN T ELSE Before(ips, p) \cup {ips[p]}
                read == [a \in T |->
                           IF a \in asked THEN getLightState(a, r[a], dev[a])
                           ELSE [state |-> dev[a], calls |-> <<>>]]
            IN  /\ calls' = CallsAfter(T, read)
                /\ config' = cfg
                /\ out' = IF p # 0 THEN PanicExit
                          ELSE [exit |-> 0, msg |-> "Light status",
                                err |-> NoError, shown |-> [a \in {b \in T : r[b] = "ok"} |->
                                             <<dev[a].on, dev[a].brightness,
                                               ElgatoToKelvin(dev[a].temperature)>>]]
                /\ UNCHANGED <<disk, dev>>

CliStatus ==
    /\ Run("status", <<>>, <<>>)
    /\ IF NoLights("status") THEN Refuse(1, "No lights configured") ELSE cliStatus

\* cliList; the registry is not empty when handleCLI lets it run.  order is
\* the order in which the range over config.Lights runs; shown[a] = <<i>> is
\* the index printed in front of the light with address a.
cliList ==
    LET cfg == loadConfig(disk)
    IN  \E order \in MapOrders(cfg.lights) :
          /\ out' = [exit |-> 0, msg |-> "Configured lights", err |-> NoError,
                     shown |-> [a \in Range(cfg.lights) |->
                                  <<CHOOSE i \in 1..Len(order) : cfg.lights[order[i]] = a>>]]
          /\ calls' = NoCalls
          /\ config' = cfg
          /\ UNCHANGED <<disk, dev>>

CliList ==
    /\ Run("list", <<>>, <<>>)
    /\ IF NoLights("list") THEN Refuse(1, "No lights configured") ELSE cliList

CliHelp ==
    /\ Run("help", <<>>, <<>>)
    /\ Refuse(0, "help")

\* cliDetect: found is what runDiscovery returns.
CliDetect ==
    /\ Run("detect", <<>>, <<>>)
    /\ \E found \in Registries :
         IF found = <<>>
         THEN Refuse(0, "No lights found")
         ELSE /\ config' = [loadConfig(disk) EXCEPT !.lights = found]
              /\ disk' = saveConfig(config')
              /\ calls' = NoCalls
              /\ Exit(0, "Discovered")
              /\ UNCHANGED dev

\* The name of device n as the registry spells it.
NameStr(n) == <<"L">> \o Itoa(n)

\* The identifiers tried: indexes, a name, and identifiers of no light.
Idents == {Itoa(1), Itoa(2), NameStr(1), <<"0">>, <<"x">>}

\* cliSpecificLight's lookup: the names the identifier can resolve to.  An
\* index counts the passes of a range over the map, whose order is not fixed:
\* an index within the registry can stop at any light.
Resolve(ls, lightIdentifier) ==
    LET scan == Sscanf(lightIdentifier)
    IN  IF scan.n = 1 /\ scan.val > 0
        THEN IF scan.val <= Cardinality(DOMAIN ls) THEN DOMAIN ls ELSE {}
        ELSE {nm \in DOMAIN ls : NameStr(nm) = lightIdentifier}

\* The sub-commands tried after a device identifier; <<>> is none.
SubCommands == {"", "on", "off", "bright", "temp", "status", "dim"}

OneCall(ip, res) ==
    /\ dev' = [dev EXCEPT ![ip] = res.state]
    /\ calls' = [NoCalls EXCEPT ![ip] = res.calls]
    /\ config' = loadConfig(disk)
    /\ UNCHANGED disk

\* cliSpecificLight once the light is found: targetIP = ip, os.Args[2] =
\* command ("" if absent), os.Args[3] = action (<<>> if absent).
cliSpecificLight(ip, command, action) ==
    CASE command = "" ->
           \E outs \in AttemptOutcomes :
             LET res == toggleLightFast(ip, outs, dev[ip])
             IN  /\ OneCall(ip, res)
                 /\ IF res.err # NoError
                    THEN out' = [exit |-> 1, msg |-> "Failed to toggle",
                                 err |-> res.err, shown |-> NoShown]
                    ELSE Exit(0, "Toggled")
      [] command \in {"on", "off"} ->
           \E w \in WriteOutcomes :
             LET res == setLight(ip, {<<"on", IF command = "on" THEN 1 ELSE 0>>}, w, dev[ip])
             IN  /\ OneCall(ip, res)
                 /\ Exit(0, IF res.err # NoError THEN "Failed" ELSE "done")
      [] command = "bright" ->
           IF action = <<>> THEN Refuse(1, "Usage: keylight <light> bright")
           ELSE IF action \in {<<"+">>, <<"-">>}
           THEN \E r \in ReadOutcomes, w \in WriteOutcomes :
                  LET res == adjustBrightness(ip, action = <<"+">>, r, w, dev[ip])
                  IN  /\ OneCall(ip, res)
                      /\ IF r # "ok" THEN Exit(1, "Failed to get state")
                         ELSE Exit(0, IF res.err # NoError THEN "Failed" ELSE "done")
           ELSE LET scan == Sscanf(action)
                    brightness == scan.val
                IN  IF scan.n # 1 THEN Refuse(1, "Invalid brightness value")
                    ELSE IF brightness < MinBrightness \/ brightness > MaxBrightness
                    THEN Refuse(1, "Brightness must be between 3 and 100")
                    ELSE \E w \in WriteOutcomes :
                           LET res == setLight(ip, {<<"brightness", brightness>>}, w, dev[ip])
                           IN  /\ OneCall(ip, res)
                               /\ Exit(0, IF res.err # NoError THEN "Failed" ELSE "done")
      [] command = "temp" ->
           IF action = <<>> THEN Refuse(1, "Usage: keylight <light> temp")
           ELSE IF action \in {<<"+">>, <<"-">>}
           THEN \E r \in ReadOutcomes, w \in WriteOutcomes :
                  IF r = "ok" /\ dev[ip].temperature = 0
                  THEN /\ OneCall(ip, getLightState(ip, r, dev[ip]))
                       /\ out' = PanicExit
                  ELSE LET res == adjustTemperature(ip, action = <<"+">>, r, w, dev[ip])
                       IN  /\ OneCall(ip, res)
                           /\ IF r # "ok" THEN Exit(1, "Failed to get state")
                              ELSE Exit(0, IF res.err # NoError THEN "Failed" ELSE "done")
           ELSE LET scan == Sscanf(action)
                    temperature == scan.val
                IN  IF scan.n # 1 THEN Refuse(1, "Invalid temperature value")
                    ELSE IF temperature < MinTemperature \/ temperature > MaxTemperature
                    THEN Refuse(1, "Temperature must be between 2900K and 7000K")
                    ELSE \E w \in WriteOutcomes :
                           LET res == setLight(ip, {<<"temperature", temperature>>}, w, dev[ip])
                           IN  /\ OneCall(ip, res)
                               /\ Exit(0, IF res.err # NoError THEN "Failed" ELSE "done")
      [] command = "status" ->
           \E r \in ReadOutcomes :
             /\ OneCall(ip, getLightState(ip, r, dev[ip]))
             /\ out' = IF r # "ok" THEN [exit |-> 0, msg |-> "Offline", err |-> NoError, shown |-> NoShown]
                       ELSE IF dev[ip].temperature = 0 THEN PanicExit
                       ELSE [exit |-> 0, msg |-> "status",
                             err |-> NoError, shown |-> [a \in {ip} |->
                                          <<dev[a].on, dev[a].brightness,
                                            ElgatoToKelvin(dev[a].temperature)>>]]
      [] OTHER -> Refuse(1, "Unknown command")

\* The arguments tried after "<light> bright" and "<light> temp".
ActionsOf(command) ==
    CASE command = "bright" -> BrightArgs \cup {<<>>}
      [] command = "temp" -> TempArgs \cup {<<>>}
      [] OTHER -> {<<>>}

\* handleCLI's default case: the first word is a device identifier.  k is
\* the number of command lines that ran before this one.
Specific(k) ==
    \E lightIdentifier \in Idents, command \in SubCommands :
      \E action \in ActionsOf(command) :
        /\ Invoke(k, command, lightIdentifier, action)
        /\ IF NoLights(command) THEN Refuse(1, "No lights configured")
           ELSE LET ls == loadConfig(disk).lights
                    found == Resolve(ls, lightIdentifier)
                IN  IF found = {} THEN Refuse(1, "Light not found")
                    ELSE \E nm \in found : cliSpecificLight(ls[nm], command, action)

CliSpecific == Specific(0)

(***************************************************************************)
(* Two command lines in a row against one light: "temp <K>" for any K of   *)
(* the range, then "status" or "temp =", which read the temperature back.  *)
(* The light takes the first command; what the second meets is open.       *)
(***************************************************************************)
InitConv ==
    /\ disk = [ok |-> TRUE,
               cfg |-> [lights |-> Registry(1), lastBrightness |-> DefaultBrightness,
                        lastTemperature |-> DefaultTemperature]]
    /\ dev = [a \in Addrs |-> WarmMid]
    /\ config = loadConfig(disk)
    /\ lights = <<>>
    /\ lightsList = <<>>
    /\ selectedLightMode = allLights
    /\ focusedControl = focusToggle
    /\ brightnessValue = DefaultBrightness
    /\ temperatureValue = DefaultTemperature
    /\ message = ""
    /\ quitting = FALSE
    /\ calls = NoCalls
    /\ cmd = Cmd("init", "handleCLI", <<>>, <<>>)
    /\ out = NoOutput
    /\ discovering = 0
    /\ steps = 0
    /\ par = NoPar

ConvSet ==
    \E k \in MinTemperature..MaxTemperature :
      /\ Invoke(0, "temp", <<>>, Itoa(k))
      /\ cliTemperature(Itoa(k))
      /\ calls'[IPOf(1)][1].res = "ok"

ConvStatus ==
    /\ Invoke(1, "status", <<>>, <<>>)
    /\ cliStatus

ConvEqualize ==
    \E action \in {<<"=">>} :
      /\ Invoke(1, "temp", <<>>, action)
      /\ cliTemperature(action)

NextConv == ConvSet \/ ConvStatus \/ ConvEqualize

SpecConv == InitConv /\ [][NextConv]_vars

(***************************************************************************)
(* Two command lines in a row with the same registry: "list", then a       *)
(* command for the light with some identifier.                             *)
(***************************************************************************)
InitOrd ==
    /\ \E k \in 1..MaxLights :
         disk = [ok |-> TRUE,
                 cfg |-> [lights |-> Registry(k), lastBrightness |-> DefaultBrightness,
                          lastTemperature |-> DefaultTemperature]]
    /\ dev = SessionDevices
    /\ config = loadConfig(disk)
    /\ lights = <<>>
    /\ lightsList = <<>>
    /\ selectedLightMode = allLights
    /\ focusedControl = focusToggle
    /\ brightnessValue = DefaultBrightness
    /\ temperatureValue = DefaultTemperature
    /\ message = ""
    /\ quitting = FALSE
    /\ calls = NoCalls
    /\ cmd = Cmd("init", "handleCLI", <<>>, <<>>)
    /\ out = NoOutput
    /\ discovering = 0
    /\ steps = 0
    /\ par = NoPar

OrdList ==
    /\ Invoke(0, "list", <<>>, <<>>)
    /\ cliList

OrdSpecific == Specific(1)

NextOrd == OrdList \/ OrdSpecific

SpecOrd == InitOrd /\ [][NextOrd]_vars

(***************************************************************************)
(* The device client on its own: getLightState and setLight called against *)
(* one light, with every reply the light or the network can give.          *)
(***************************************************************************)
InitClient ==
    /\ disk = [ok |-> TRUE,
               cfg |-> [lights |-> Registry(1), lastBrightness |-> DefaultBrightness,
                        lastTemperature |-> DefaultTemperature]]
    /\ dev \in DeviceInits(Registry(1))
    /\ config = loadConfig(disk)
    /\ lights = <<>>
    /\ lightsList = <<>>
    /\ selectedLightMode = allLights
    /\ focusedControl = focusToggle
    /\ brightnessValue = DefaultBrightness
    /\ temperatureValue = DefaultTemperature
    /\ message = ""
    /\ quitting = FALSE
    /\ calls = NoCalls
    /\ cmd = Cmd("init", "client", <<>>, <<>>)
    /\ out = NoOutput
    /\ discovering = 0
    /\ steps = 0
    /\ par = NoPar

\* One call of a function of the client for the light at ip; res is what it
\* returned, after the state the light holds afterwards.  out.err is the
\* error returned, out.shown the state returned.
ClientCall(name, ip, res, after) ==
    /\ steps < MaxSteps
    /\ steps' = steps + 1
    /\ cmd' = Cmd("call", name, <<>>, <<>>)
    /\ dev' = [dev EXCEPT ![ip] = after]
    /\ calls' = [NoCalls EXCEPT ![ip] = res.calls]
    /\ out' = [exit |-> 0, msg |-> name, err |-> res.err,
               shown |-> IF name = "getLightState" /\ res.err = NoError
                         THEN [a \in {ip} |-> <<res.state.on, res.state.brightness,
                                                res.state.temperature>>]
                         ELSE NoShown]
    /\ UNCHANGED <<disk, config>>
    /\ UNCHANGED Session

ClientGet ==
    \E r \in GetReplies :
      LET got == getLightState(IPOf(1), r, dev[IPOf(1)])
      IN  ClientCall("getLightState", IPOf(1), got, dev[IPOf(1)])

\* The arguments the commands give to setLight: one of on, brightness and
\* temperature, the others nil.
Patches ==
    {{<<"on", v>>} : v \in {0, 1}}
    \cup {{<<"brightness", v>>} : v \in {MinBrightness, MaxBrightness}}
    \cup {{<<"temperature", v>>} : v \in {MinTemperature, MaxTemperature}}

ClientSet ==
    \E patch \in Patches, w \in WriteOutcomes :
      LET put == setLight(IPOf(1), patch, w, dev[IPOf(1)])
      IN  ClientCall("setLight", IPOf(1), put, put.state)

\* What can become of a PUT when replies can be lost on the way back.
LossyWriteOutcomes == WriteOutcomes \cup {"lost"}

\* toggleLightFast against the light, nobody else writing to it.
ClientToggleFast ==
    \E outs \in [1..MaxAttempts -> ReadOutcomes \X LossyWriteOutcomes] :
      LET res == toggleLightFast(IPOf(1), outs, dev[IPOf(1)])
      IN  ClientCall("toggleLightFast", IPOf(1), res, res.state)

NextClient == ClientGet \/ ClientSet \/ ClientToggleFast

SpecClient == InitClient /\ [][NextClient]_vars

(***************************************************************************)
(* Commands over several lights, followed call by call.  "on" / "off"      *)
(* start one goroutine per light and collect the results from a buffered   *)
(* channel; "bright <v>" calls the lights one after the other in a loop.   *)
(* par.task[a] is where the call to light a stands: "ready" (not issued),  *)
(* "calling" (PUT in flight), "sending" (returned, result not handed off), *)
(* "done".  par.results is the channel, par.got what the collector has     *)
(* received, par.ips the order of the loop.                                *)
(***************************************************************************)
\* make(chan result, len(config.Lights))
Capacity(n) == n

\* The number of results the collector waits for: len(config.Lights).
\* One less would let it return before the last result.
CollectCountShort(n) == n - 1

CollectCount(n) == n

Started(kind, patch, ips) ==
    [pc |-> IF kind = "go" THEN "collect" ELSE "loop", kind |-> kind, patch |-> patch,
     ips |-> ips, task |-> [a \in Range(ips) |-> "ready"], results |-> <<>>, got |-> <<>>]

StartCommand(name, arg, kind, patch) ==
    /\ steps = 0
    /\ steps' = steps + 1
    /\ cmd' = Cmd("cli", name, <<>>, arg)
    /\ ~NoLights(name)
    /\ \E order \in MapOrders(loadConfig(disk).lights) :
         par' = Started(kind, patch, [i \in 1..Len(order) |-> loadConfig(disk).lights[order[i]]])
    /\ config' = loadConfig(disk)
    /\ calls' = NoCalls
    /\ out' = [NoOutput EXCEPT !.msg = "running"]
    /\ UNCHANGED <<disk, dev, SessionVars>>

\* cliTurnOn / cliTurnOff up to the end of the loop that starts the goroutines.
StartPower ==
    \E name \in {"on", "off"} :
      StartCommand(name, <<>>, "go", {<<"on", IF name = "on" THEN 1 ELSE 0>>})

\* cliBrightness with a value, up to its loop over the lights.
StartBright ==
    StartCommand("bright", Itoa(MaxBrightness), "seq", {<<"brightness", MaxBrightness>>})

\* The position of the loop of a sequential command: the first light whose
\* call has not returned, 0 when none is left.
NextInLoop ==
    LET D == {i \in 1..Len(par.ips) : par.task[par.ips[i]] # "done"}
    IN  IF D = {} THEN 0 ELSE Min(D)

\* The call to light a is issued: by its goroutine, or by the loop when it
\* has come to a.
Issue(a) ==
    /\ par.pc \in {"collect", "loop"}
    /\ par.task[a] = "ready"
    /\ par.kind = "seq" => par.ips[NextInLoop] = a
    /\ par' = [par EXCEPT !.task[a] = "calling"]
    /\ UNCHANGED <<disk, config, dev, calls, cmd, out, steps, SessionVars>>

\* setLight returns for light a, after the light answered or after the
\* client's timeout.
Return(a) ==
    /\ par.pc \in {"collect", "loop"}
    /\ par.task[a] = "calling"
    /\ \E w \in WriteOutcomes :
         LET res == setLight(a, par.patch, w, dev[a])
         IN  /\ dev' = [dev EXCEPT ![a] = res.state]
             /\ calls' = [calls EXCEPT ![a] = res.calls]
    /\ par' = [par EXCEPT !.task[a] = IF par.kind = "go" THEN "sending" ELSE "done"]
    /\ UNCHANGED <<disk, config, cmd, out, steps, SessionVars>>

\* results <- result{...} in the goroutine of light a.
Send(a) ==
    /\ par.pc = "collect"
    /\ par.task[a] = "sending"
    /\ Len(par.results) < Capacity(Len(par.ips))
    /\ par' = [par EXCEPT !.task[a] = "done", !.results = Append(@, a)]
    /\ UNCHANGED <<disk, config, dev, calls, cmd, out, steps, SessionVars>>

\* r := <-results in the collecting loop; after the last one the command ends.
Collect ==
    /\ par.pc = "collect"
    /\ par.results # <<>>
    /\ LET got == Append(par.got, Head(par.results))
           last == Len(got) >= CollectCount(Len(par.ips))
       IN  /\ par' = [par EXCEPT !.got = got, !.results = Tail(@),
                                 !.pc = IF last THEN "exit" ELSE @]
           /\ out' = IF last THEN [NoOutput EXCEPT !.msg = "done"] ELSE out
    /\ UNCHANGED <<disk, config, dev, calls, cmd, steps, SessionVars>>

\* The end of cliBrightness: the value is saved after the loop.
Finish ==
    /\ par.pc = "loop"
    /\ NextInLoop = 0
    /\ par' = [par EXCEPT !.pc = "exit"]
    /\ config' = [config EXCEPT !.lastBrightness = MaxBrightness]
    /\ disk' = saveConfig(config')
    /\ out' = [NoOutput EXCEPT !.msg = "done"]
    /\ UNCHANGED <<dev, calls, cmd, steps, SessionVars>>

IssueCall == \E a \in Addrs : a \in DOMAIN par.task /\ Issue(a)
ReturnCall == \E a \in Addrs : a \in DOMAIN par.task /\ Return(a)
SendResult == \E a \in Addrs : a \in DOMAIN par.task /\ Send(a)

NextPar ==
    \/ StartPower \/ StartBright
    \/ IssueCall \/ ReturnCall \/ SendResult \/ Collect \/ Finish

SpecPar == InitOrd /\ [][NextPar]_vars

(***************************************************************************)
(* "detect" followed step by step.  runDiscovery starts a collector        *)
(* goroutine that stores each entry it receives in the map `discovered`,   *)
(* waits for the time budget and returns that same map; cliDetect reads    *)
(* its length, installs it in the Config and saves.  par.held is the light *)
(* the collector has received and not yet stored (0: none); the map is     *)
(* shared, so a store after the return shows in config.Lights.  The lights *)
(* answer in the order of their numbers.  A store that coincides with a    *)
(* read of the map is a data race: the read sees the map before or after   *)
(* the store, or the runtime stops the process.                            *)
(***************************************************************************)
DiscFrame == UNCHANGED <<dev, calls, SessionVars, steps, cmd>>

DiscStart ==
    /\ steps = 0
    /\ steps' = steps + 1
    /\ cmd' = Cmd("cli", "detect", <<>>, <<>>)
    /\ par' = [pc |-> "browse", held |-> 0, discovered |-> Registry(0)]
    /\ config' = loadConfig(disk)
    /\ out' = [NoOutput EXCEPT !.msg = "Discovering lights..."]
    /\ UNCHANGED <<disk, dev, calls, SessionVars>>

\* for entry := range entries, while the browse runs.
DiscReceive ==
    /\ par.pc = "browse"
    /\ par.held = 0
    /\ Len(par.discovered) < MaxLights
    /\ par' = [par EXCEPT !.held = Len(par.discovered) + 1]
    /\ UNCHANGED <<disk, config, out>>
    /\ DiscFrame

\* discovered[name] = ip
DiscStore ==
    /\ par.pc \in {"browse", "returned", "installed"}
    /\ par.held # 0
    /\ par' = [par EXCEPT !.held = 0,
                          !.discovered = Registry(Len(par.discovered) + 1)]
    /\ config' = IF par.pc = "installed"
                 THEN [config EXCEPT !.lights = par'.discovered] ELSE config
    /\ UNCHANGED <<disk, out>>
    /\ DiscFrame

\* <-ctx.Done(); return discovered
DiscReturn ==
    /\ par.pc = "browse"
    /\ par' = [par EXCEPT !.pc = "returned"]
    /\ UNCHANGED <<disk, config, out>>
    /\ DiscFrame

\* cliDetect: len(discovered) == 0, or config.Lights = discovered.
DiscInstall ==
    /\ par.pc = "returned"
    /\ IF par.discovered = <<>>
       THEN /\ par' = [par EXCEPT !.pc = "exit"]
            /\ Exit(0, "No lights found")
            /\ UNCHANGED config
       ELSE /\ par' = [par EXCEPT !.pc = "installed"]
            /\ config' = [loadConfig(disk) EXCEPT !.lights = par.discovered]
            /\ UNCHANGED out
    /\ UNCHANGED disk
    /\ DiscFrame

\* saveConfig(config) and the end of the process.
DiscSave ==
    /\ par.pc = "installed"
    /\ par' = [par EXCEPT !.pc = "exit"]
    /\ disk' = saveConfig(config)
    /\ Exit(0, "Discovered")
    /\ UNCHANGED config
    /\ DiscFrame

\* The runtime finds the map written while it is read.
DiscFatal ==
    /\ par.pc \in {"returned", "installed"}
    /\ par.held # 0
    /\ par' = [par EXCEPT !.pc = "exit"]
    /\ out' = [exit |-> 2, msg |-> "fatal error: concurrent map read and map write",
               err |-> NoError, shown |-> NoShown]
    /\ UNCHANGED <<disk, config>>
    /\ DiscFrame

NextDisc ==
    \/ DiscStart \/ DiscReceive \/ DiscStore \/ DiscReturn
    \/ DiscInstall \/ DiscSave \/ DiscFatal

SpecDisc == InitCLI /\ [][NextDisc]_vars

NextCLI ==
    \/ CliOn \/ CliOff
    \/ CliBright \/ CliBrightUsage
    \/ CliTemp \/ CliTempUsage
    \/ CliStatus \/ CliList \/ CliHelp \/ CliDetect
    \/ CliSpecific

SpecCLI == InitCLI /\ [][NextCLI]_vars

(***************************************************************************)
(* main: with arguments the process is a one-shot command, without it is   *)
(* the interactive session.                                                *)
(***************************************************************************)
TUIProcess == cmd.src \in {"key", "go"} \/ (cmd.src = "init" /\ cmd.name = "runTUI")

InitMain == Init \/ InitCLI

MainTUI == TUIProcess /\ Next

MainCLI == ~TUIProcess /\ NextCLI

NextMain == MainTUI \/ MainCLI

SpecMain == InitMain /\ [][NextMain]_vars

(***************************************************************************)
(* Properties.  They read the log of the last command (calls), what it     *)
(* printed (out), the settings file (disk) and the devices (dev).          *)
(***************************************************************************)
Max(S) == CHOOSE x \in S : \A y \in S : y <= x

\* Positions of the writes and of the reads in the log of one address.
Puts(log) == {i \in 1..Len(log) : log[i].op = "PUT"}
Gets(log) == {i \in 1..Len(log) : log[i].op = "GET"}
Refused(log) == \E i \in Puts(log) : log[i].res # "ok"
Accepted(log) == \E i \in Puts(log) : log[i].res = "ok"
ReadOk(log) == \E i \in Gets(log) : log[i].res = "ok"

\* The values of a field that the writes of a log asked to set.
Written(log, field) ==
    {p[2] : p \in {q \in UNION {log[i].patch : i \in Puts(log)} : q[1] = field}}

\* The command lines "bright <v>" / "temp <v>" and "bright =" / "temp =",
\* and the relative ones, for all lights or for one.
ExplicitValue(c) ==
    c.src = "cli" /\ c.name \in {"bright", "temp"} /\ c.target = <<>> /\ Sscanf(c.arg).n = 1
Equalize(c) ==
    c.src = "cli" /\ c.name \in {"bright", "temp"} /\ c.target = <<>> /\ c.arg = <<"=">>
Relative(c) ==
    c.src = "cli" /\ c.name \in {"bright", "temp"} /\ c.arg \in {<<"+">>, <<"-">>}
EnterOn(rows) == cmd.src = "key" /\ cmd.name = "enter" /\ focusedControl \in rows

\* C1: an explicit set-value command ("bright <v>" / "temp <v>" on the
\* command line, Enter on the brightness or temperature row of the session)
\* that some addressed device did not accept leaves the settings file as it
\* was: the value is persisted only if every device accepted it.
C1_PersistOnlyIfAllAccepted ==
    [][ ( /\ \/ ExplicitValue(cmd')
             \/ (cmd'.src = "key" /\ cmd'.name = "enter"
                 /\ focusedControl \in {focusBrightness, focusTemperature})
          /\ \E a \in Addrs : Refused(calls'[a]) )
        => disk' = disk ]_vars

\* C2: after Enter on a power row (toggle, off, on) or on a value row
\* (brightness, temperature), every address the selection resolves to has
\* received exactly one write, whatever happened to the others.
C2_EveryTargetCalledOnce ==
    EnterOn(controlFocus) =>
        \A a \in Range(getSelectedLightIPs(selectedLightMode, lights, lightsList,
                                           SomeOrder(lights))) :
            Cardinality(Puts(calls[a])) = 1

\* C3: "bright =" / "temp =" with at least one readable light writes one
\* value to every configured light, readable or not, and that value is the
\* (integer) mean of the values of the lights that were read.
C3_EqualizeWritesMean ==
    [][ LET T == Range(loadConfig(disk).lights)
            R == {a \in T : ReadOk(calls'[a])}
            field == IF cmd'.name = "bright" THEN "brightness" ELSE "temperature"
        IN  (Equalize(cmd') /\ R # {}) =>
              /\ \A a \in T : Cardinality(Puts(calls'[a])) = 1
              /\ LET total == Sum([a \in R |->
                                      IF field = "brightness" THEN dev[a].brightness
                                      ELSE ElgatoToKelvin(dev[a].temperature)], R)
                     n == Cardinality(R)
                 IN  \A a \in T :
                       /\ Written(calls'[a], field) # {}
                       /\ \A v \in Written(calls'[a], field) :
                            v * n <= total /\ total < (v + 1) * n ]_vars

\* C4: "bright =" / "temp =" when no configured light could be read reports
\* "Could not read any lights" and sends no write to any device.
C4_NoReadableNoWrite ==
    ( /\ Equalize(cmd)
      /\ config.lights # <<>>
      /\ \A a \in Range(config.lights) : ~ReadOk(calls[a]) )
    => /\ out.msg = "Could not read any lights"
       /\ \A a \in Addrs : Puts(calls[a]) = {}

C4_Witness ==
    /\ Equalize(cmd)
    /\ Cardinality(Range(config.lights)) >= 2
    /\ \A a \in Range(config.lights) : Gets(calls[a]) # {} /\ ~ReadOk(calls[a])
    /\ out.msg = "Could not read any lights"

\* The fast toggle of one light ran ("keylight <light>" with a known light).
FastToggleRan ==
    cmd.src = "cli" /\ cmd.name = "" /\ out.msg \in {"Toggled", "Failed to toggle"}
AttemptsOf(log) == {log[i].attempt : i \in 1..Len(log)}
Succeeded(log, k) ==
    /\ \E i \in Gets(log) : log[i].attempt = k /\ log[i].res = "ok"
    /\ \E i \in Puts(log) : log[i].attempt = k /\ log[i].res = "ok"
InOrder(log) == \A i, j \in 1..Len(log) : i < j => log[i].attempt <= log[j].attempt

\* C5: the fast toggle makes attempts 1, 2, ... one after the other, at most
\* MaxAttempts of them, stops at the first attempt that succeeds, and
\* reports success exactly if an attempt succeeded.
C5_RetryUntilSuccess ==
    FastToggleRan =>
        \A a \in Addrs : calls[a] # <<>> =>
            LET log == calls[a]
                last == Max(AttemptsOf(log))
            IN  /\ AttemptsOf(log) = 1..last
                /\ last <= MaxAttempts
                /\ InOrder(log)
                /\ \A k \in 1..(last - 1) : ~Succeeded(log, k)
                /\ last < MaxAttempts => Succeeded(log, last)
                /\ (out.exit = 0 /\ out.msg = "Toggled") <=> Succeeded(log, last)

C5_Witness ==
    /\ FastToggleRan
    /\ \E a \in Addrs :
         /\ AttemptsOf(calls[a]) = 1..3
         /\ ~Succeeded(calls[a], 1)
         /\ ~Succeeded(calls[a], 2)
         /\ Succeeded(calls[a], 3)
    /\ out.exit = 0 /\ out.msg = "Toggled"

\* The error an attempt ends with, read from the log.
FailureOf(log, k) ==
    IF \E i \in Gets(log) : log[i].attempt = k /\ log[i].res # "ok"
    THEN "failed to get light state"
    ELSE IF \E i \in Puts(log) : log[i].attempt = k /\ log[i].res = "offline"
    THEN "failed to send toggle request"
    ELSE "API returned status"

\* C6: when no attempt of the fast toggle succeeds, exactly the attempts
\* 1, 2, 3 were made, in this order, and the error reported is "failed after
\* 3 attempts" wrapping the error of the third attempt.
C6_ErrorWrapsLastAttempt ==
    FastToggleRan =>
        \A a \in Addrs :
            (calls[a] # <<>> /\ \A k \in AttemptsOf(calls[a]) : ~Succeeded(calls[a], k)) =>
                /\ AttemptsOf(calls[a]) = 1..3
                /\ InOrder(calls[a])
                /\ out.exit = 1
                /\ out.err.msg = "failed after 3 attempts"
                /\ out.err.at = 3
                /\ out.err.cause = FailureOf(calls[a], 3)

C6_Witness ==
    /\ FastToggleRan
    /\ \E a \in Addrs :
         /\ AttemptsOf(calls[a]) = 1..3
         /\ FailureOf(calls[a], 1) = "failed to get light state"
         /\ FailureOf(calls[a], 3) = "API returned status"
         /\ \A k \in 1..3 : ~Succeeded(calls[a], k)
    /\ out.err.at = 3 /\ out.err.cause = "API returned status"

\* The Kelvin values that the command after an accepted "temp <K>" read back
\* from light a: the one "status" printed, the one "temp =" wrote again.
ReadBack(a) ==
    (IF a \in DOMAIN out'.shown THEN {out'.shown[a][3]} ELSE {})
    \cup (IF Equalize(cmd') THEN Written(calls'[a], "temperature") ELSE {})

C8_PendingInRange ==
    /\ brightnessValue \in MinBrightness..MaxBrightness
    /\ temperatureValue \in MinTemperature..MaxTemperature

\* C9: every value that a relative adjustment or an equalize asks a device
\* to take is in [3, 100] (brightness) or [2900, 7000] (temperature).
C9_WrittenInRange ==
    (Relative(cmd) \/ Equalize(cmd)) =>
        \A a \in Addrs :
            /\ Written(calls[a], "brightness") \subseteq MinBrightness..MaxBrightness
            /\ Written(calls[a], "temperature") \subseteq MinTemperature..MaxTemperature

\* C10: the selection resolves to every registered address exactly once for
\* "all", and for the n-th light to the address of the n-th listed name if
\* there is one, to nothing otherwise (ordinal 2 with one light: nothing).
C10_SelectionResolves ==
    \A order \in MapOrders(lights) :
        LET all == getSelectedLightIPs(allLights, lights, lightsList, order)
            one == getSelectedLightIPs(light1, lights, lightsList, order)
            two == getSelectedLightIPs(light2, lights, lightsList, order)
        IN  /\ Len(all) = Cardinality(DOMAIN lights)
            /\ Range(all) = Range(lights)
            /\ \A i, j \in 1..Len(all) : i # j => all[i] # all[j]
            /\ one = IF Len(lightsList) >= 1 THEN <<lights[lightsList[1]]>> ELSE <<>>
            /\ two = IF Len(lightsList) >= 2 THEN <<lights[lightsList[2]]>> ELSE <<>>

C10_Witness ==
    /\ Len(lightsList) = 1
    /\ EnterOn({focusToggle})
    /\ selectedLightMode = light1
    /\ Puts(calls[lights[lightsList[1]]]) # {}
    /\ getSelectedLightIPs(light2, lights, lightsList, SomeOrder(lights)) = <<>>

ButtonRow == {focusToggle, focusTurnOff, focusTurnOn}
KeyStep(k) == cmd'.src = "key" /\ cmd'.name = k

\* C12: "down" from a button focuses the brightness row and from the
\* brightness row the temperature row; "up" from the temperature row focuses
\* the brightness row and from the brightness row a button.
C12_VerticalFocus ==
    [][ /\ KeyStep("down") =>
             /\ focusedControl \in ButtonRow => focusedControl' = focusBrightness
             /\ focusedControl = focusBrightness => focusedControl' = focusTemperature
        /\ KeyStep("up") =>
             /\ focusedControl = focusTemperature => focusedControl' = focusBrightness
             /\ focusedControl = focusBrightness => focusedControl' \in ButtonRow ]_vars

C12_Witness ==
    /\ steps = 2
    /\ cmd.src = "key" /\ cmd.name = "down"
    /\ focusedControl = focusTemperature

\* C13: with a button focused, "right" moves Toggle -> TurnOff -> TurnOn and
\* "left" moves TurnOn -> TurnOff -> Toggle; the focus stays in the button
\* row and the pending values stay what they were.
C13_ButtonRowFocus ==
    [][ (focusedControl \in ButtonRow) =>
          /\ KeyStep("right") =>
               /\ focusedControl = focusToggle => focusedControl' = focusTurnOff
               /\ focusedControl = focusTurnOff => focusedControl' = focusTurnOn
          /\ KeyStep("left") =>
               /\ focusedControl = focusTurnOn => focusedControl' = focusTurnOff
               /\ focusedControl = focusTurnOff => focusedControl' = focusToggle
          /\ (KeyStep("left") \/ KeyStep("right")) =>
               /\ UNCHANGED <<brightnessValue, temperatureValue>>
               /\ focusedControl' \in ButtonRow ]_vars

C13_Witness ==
    /\ steps = 3
    /\ cmd.src = "key" /\ cmd.name = "left"
    /\ focusedControl = focusTurnOff

\* v moved by d and clamped to lo..hi.
Clamped(v, d, lo, hi) ==
    IF v + d < lo THEN lo ELSE IF v + d > hi THEN hi ELSE v + d

\* C14: with the brightness (temperature) row focused, "left" / "right" moves
\* the pending brightness (temperature) by one step, clamped to its range;
\* focus, the other pending value, the selection, the settings and the
\* devices stay what they were and no device is called.
C14_PendingAdjust ==
    [][ \A k \in {"left", "right"} :
          LET sign == IF k = "left" THEN 0 - 1 ELSE 1 IN
          /\ (KeyStep(k) /\ focusedControl = focusBrightness) =>
               /\ brightnessValue' = Clamped(brightnessValue, sign * BrightnessStep,
                                             MinBrightness, MaxBrightness)
               /\ UNCHANGED <<focusedControl, temperatureValue, selectedLightMode,
                              disk, config, dev>>
               /\ calls' = NoCalls
          /\ (KeyStep(k) /\ focusedControl = focusTemperature) =>
               /\ temperatureValue' = Clamped(temperatureValue, sign * TemperatureStep,
                                              MinTemperature, MaxTemperature)
               /\ UNCHANGED <<focusedControl, brightnessValue, selectedLightMode,
                              disk, config, dev>>
               /\ calls' = NoCalls ]_vars

\* A decimal numeral: digits and nothing else.
IsNumeral(str) == str # <<>> /\ \A i \in 1..Len(str) : IsDigit(str[i])

\* The command line names a light that the registry does not have: neither
\* an index within the registry nor a registered name.
UnknownLight(c, ls) ==
    /\ c.src = "cli" /\ c.target # <<>>
    /\ ~(IsNumeral(c.target) /\ Sscanf(c.target).val \in 1..Cardinality(DOMAIN ls))
    /\ ~\E nm \in DOMAIN ls : NameStr(nm) = c.target

\* The value argument of "bright" / "temp" (for all lights or for one) is
\* not a number, or a number outside the range.
BadValue(c) ==
    /\ c.src = "cli" /\ c.name \in {"bright", "temp"}
    /\ c.arg \notin {<<>>, <<"+">>, <<"-">>, <<"=">>}
    /\ \/ ~IsNumeral(c.arg)
       \/ c.name = "bright" /\ Sscanf(c.arg).val \notin MinBrightness..MaxBrightness
       \/ c.name = "temp" /\ Sscanf(c.arg).val \notin MinTemperature..MaxTemperature

\* C15: a command line with an unknown light, a value out of range or a
\* malformed value reaches no device, neither with a read nor with a write,
\* and the process exits non-zero.
C15_InvalidInputRejected ==
    (UnknownLight(cmd, config.lights) \/ BadValue(cmd)) =>
        /\ calls = NoCalls
        /\ out.exit # 0

\* A command line for one light that called the light and got no write
\* accepted: the command failed on that light.
SingleTargetFailed ==
    /\ cmd.src = "cli" /\ cmd.target # <<>>
    /\ cmd.name \in {"", "on", "off", "bright", "temp"}
    /\ calls # NoCalls
    /\ \A a \in Addrs : ~Accepted(calls[a])

\* C16: a command line addressed to one light ("<light>", "<light> on",
\* "<light> off", "<light> bright ..", "<light> temp ..") exits non-zero
\* whenever the command fails on that light.
C16_SingleTargetFailureExit ==
    SingleTargetFailed => out.exit # 0

\* The first word of the command line is a bootstrap command.
Bootstrap(c) == c.target = <<>> /\ c.name \in {"detect", "help"}

\* C17: with an empty registry every command line other than "detect" and
\* "help" exits non-zero and calls no device.
C17_EmptyRegistryRefused ==
    (cmd.src = "cli" /\ ~Bootstrap(cmd) /\ loadConfig(disk).lights = <<>>) =>
        /\ out.exit # 0
        /\ calls = NoCalls

C17_Witness ==
    /\ cmd.src = "cli" /\ cmd.name = "on" /\ cmd.target = <<>>
    /\ loadConfig(disk).lights = <<>>
    /\ out.exit = 1 /\ out.msg = "No lights configured"
    /\ calls = NoCalls

Inverse(on) == IF on = 0 THEN 1 ELSE 0

\* The log of a fast toggle of a light that was on / off: numbered attempts,
\* each with one read and, only after a successful read, one write of the
\* inverse power state.
FastLog(log, on) ==
    /\ log # <<>>
    /\ \A i \in 1..Len(log) : log[i].attempt \in 1..MaxAttempts
    /\ \A k \in AttemptsOf(log) :
         Cardinality({i \in Gets(log) : log[i].attempt = k}) = 1
    /\ \A i \in Puts(log) :
         /\ log[i].patch = {<<"on", Inverse(on)>>}
         /\ \E j \in Gets(log) :
              j < i /\ log[j].attempt = log[i].attempt /\ log[j].res = "ok"

\* The log of a slow toggle: one read, then one write, no attempt number;
\* the write inverts what was read, or turns on if the read failed.
SlowLog(log, on) ==
    /\ Len(log) = 2
    /\ log[1].op = "GET" /\ log[1].attempt = 0
    /\ log[2].op = "PUT" /\ log[2].attempt = 0
    /\ log[2].patch = {<<"on", IF log[1].res = "ok" THEN Inverse(on) ELSE 1>>}

\* C18: "keylight <light>" runs the fast toggle on the one light the
\* identifier resolves to and calls no other; Enter on Toggle in the session
\* runs one slow toggle on every selected light and calls no other.
C18_FastVersusSlowToggle ==
    [][ /\ (cmd'.src = "cli" /\ cmd'.name = ""
            /\ out'.msg \in {"Toggled", "Failed to toggle"}) =>
              LET ls == loadConfig(disk).lights IN
              \E a \in Range(ls) :
                /\ \A b \in Addrs \ {a} : calls'[b] = <<>>
                /\ \A nm \in DOMAIN ls : NameStr(nm) = cmd'.target => a = ls[nm]
                /\ FastLog(calls'[a], dev[a].on)
        /\ (cmd'.src = "key" /\ cmd'.name = "enter" /\ focusedControl = focusToggle) =>
              LET sel == Range(getSelectedLightIPs(selectedLightMode, lights,
                                                   lightsList, SomeOrder(lights)))
              IN  \A a \in Addrs :
                    IF a \in sel THEN SlowLog(calls'[a], dev[a].on)
                    ELSE calls'[a] = <<>> ]_vars

C18_Witness ==
    /\ FastToggleRan
    /\ cmd.target = NameStr(1)
    /\ Cardinality(Range(config.lights)) >= 2
    /\ AttemptsOf(calls[IPOf(1)]) = 1..2
    /\ Succeeded(calls[IPOf(1)], 2)
    /\ \A b \in Addrs \ {IPOf(1)} : calls[b] = <<>>

\* C19: the session resolves its commands against the registry that the
\* settings file holds: once a discovery has replaced the persisted registry,
\* "all" resolves to the discovered addresses and the session's mapping is
\* the discovered one.
C19_DiscoveryReplacesRegistry ==
    /\ lights = loadConfig(disk).lights
    /\ Range(getSelectedLightIPs(allLights, lights, lightsList, SomeOrder(lights)))
         = Range(loadConfig(disk).lights)

\* C20: after "list", a command line "<n> ..." calls the light that "list"
\* showed with index n: the ordinal denotes the same light in both.
C20_OrdinalStable ==
    [][ (cmd.src = "cli" /\ cmd.name = "list"
         /\ cmd'.src = "cli" /\ IsNumeral(cmd'.target))
        => \A a \in DOMAIN out.shown :
              calls'[a] # <<>> => out.shown[a] = <<Sscanf(cmd'.target).val>> ]_vars

\* A stored default as the programs use it: an absent (zero) value stands for
\* the built-in default.
Effective(c) ==
    [lastBrightness |-> IF c.lastBrightness = 0 THEN DefaultBrightness ELSE c.lastBrightness,
     lastTemperature |-> IF c.lastTemperature = 0 THEN DefaultTemperature
                         ELSE c.lastTemperature]

\* The step is an explicit value command: Enter on a value row of the
\* session, or "bright <v>" / "temp <v>" for all lights or for one.
ValueCommand ==
    \/ cmd'.src = "key" /\ cmd'.name = "enter"
       /\ focusedControl \in {focusBrightness, focusTemperature}
    \/ cmd'.src = "cli" /\ cmd'.name \in {"bright", "temp"} /\ Sscanf(cmd'.arg).n = 1

\* C21: after an explicit value command that wrote to at least one light and
\* that every light it called accepted, the settings file holds the written
\* value as lastBrightness (resp. lastTemperature) and the other stored
\* default is what it was.
C21_AppliedValuePersisted ==
    [][ ( /\ ValueCommand
          /\ calls' # NoCalls
          /\ \A a \in Addrs : ~Refused(calls'[a]) )
        => \A a \in Addrs :
             /\ \A v \in Written(calls'[a], "brightness") :
                  /\ loadConfig(disk').lastBrightness = v
                  /\ Effective(loadConfig(disk')).lastTemperature
                       = Effective(loadConfig(disk)).lastTemperature
             /\ \A v \in Written(calls'[a], "temperature") :
                  /\ loadConfig(disk').lastTemperature = v
                  /\ Effective(loadConfig(disk')).lastBrightness
                       = Effective(loadConfig(disk)).lastBrightness ]_vars

\* The session has been set up and no key has been handled yet.
SessionStart == cmd.src = "init" /\ cmd.name = "runTUI"

\* C22: the session starts with the toggle row focused, all lights selected,
\* the lights of the settings listed, and the pending brightness and
\* temperature equal to the stored defaults, an absent one counting as
\* brightness 50 / temperature 4000.
C22_SessionStartsFromDefaults ==
    SessionStart =>
        /\ focusedControl = focusToggle
        /\ selectedLightMode = allLights
        /\ brightnessValue = Effective(loadConfig(disk)).lastBrightness
        /\ temperatureValue = Effective(loadConfig(disk)).lastTemperature
        /\ lights = loadConfig(disk).lights
        /\ Range(lightsList) = DOMAIN lights

\* A session that starts from a settings file without stored defaults.
C22_Witness ==
    /\ SessionStart
    /\ disk.cfg.lastBrightness = 0 /\ disk.cfg.lastTemperature = 0
    /\ brightnessValue = DefaultBrightness /\ temperatureValue = DefaultTemperature

\* The messages with which a power commit of the session reports success.
PowerDone == {"lights toggled", "Lights turned off", "Lights turned on"}

\* C23: after Enter on a power row (toggle, off, on) the message reports
\* success only if no light of the selection refused its write.
C23_PowerFailureReported ==
    EnterOn({focusToggle, focusTurnOff, focusTurnOn}) =>
        ( (\E a \in Addrs : Refused(calls[a])) => message \notin PowerDone )

\* C24: whatever state the lights report, "status" and "temp +", "temp -",
\* "temp =" (for all lights or for one) end with a reported outcome, exit
\* code 0 or 1; the process is never aborted.
C24_NoReplyAborts ==
    (cmd.src = "cli" /\ cmd.name \in {"status", "temp"}) => out.exit \in {0, 1}

\* The value a relative command has to write to a light that holds s: the
\* light's own value moved by one step and clamped to the range.
RelativeTarget(c, s) ==
    LET d == IF c.arg = <<"+">> THEN 1 ELSE -1
    IN  IF c.name = "bright"
        THEN Clamped(s.brightness, d * BrightnessStep, MinBrightness, MaxBrightness)
        ELSE Clamped(ElgatoToKelvin(s.temperature), d * TemperatureStep,
                     MinTemperature, MaxTemperature)

\* C25: "bright +/-" and "temp +/-" for all lights treat each light on its
\* own: every configured light is read; a light whose read succeeds is
\* written once, with its own value moved by the step and clamped; a light
\* whose read fails is not written.
C25_RelativePerDevice ==
    [][ (Relative(cmd') /\ cmd'.target = <<>>)
        => \A a \in Range(loadConfig(disk).lights) :
             /\ Cardinality(Gets(calls'[a])) = 1
             /\ ~ReadOk(calls'[a]) => Puts(calls'[a]) = {}
             /\ ReadOk(calls'[a]) =>
                  /\ Cardinality(Puts(calls'[a])) = 1
                  /\ (cmd'.name = "bright" \/ dev[a].temperature # 0) =>
                       Written(calls'[a], IF cmd'.name = "bright" THEN "brightness"
                                          ELSE "temperature")
                         = {RelativeTarget(cmd', dev[a])} ]_vars

\* C26: the slow toggle (Enter on Toggle, one toggleLight per selected light)
\* reads the light and then writes once: the inverse of the power it read,
\* or on if the read failed.  Its result is the result of that write: the
\* session reports an error exactly if some write was refused.  A light that
\* was read and accepted the write holds the inverse power afterwards, with
\* brightness and temperature as before.
C26_SlowToggle ==
    [][ (cmd'.src = "key" /\ cmd'.name = "enter" /\ focusedControl = focusToggle) =>
          LET sel == Range(getSelectedLightIPs(selectedLightMode, lights,
                                               lightsList, SomeOrder(lights)))
          IN  /\ \A a \in sel :
                   LET log == calls'[a] IN
                   /\ Len(log) = 2 /\ log[1].op = "GET" /\ log[2].op = "PUT"
                   /\ log[2].body = {<<"on", IF log[1].res = "ok" THEN Inverse(dev[a].on)
                                             ELSE 1>>}
                   /\ log[2].res = "ok" =>
                        dev'[a] = [dev[a] EXCEPT
                                     !.on = IF log[1].res = "ok" THEN Inverse(@) ELSE 1]
                   /\ log[2].res # "ok" => dev'[a] = dev[a]
              /\ sel # {} =>
                   /\ message' = "Error toggling lights"
                        <=> \E a \in sel : Refused(calls'[a])
                   /\ message' = "lights toggled"
                        <=> \A a \in sel : ~Refused(calls'[a]) ]_vars

\* A slow toggle whose read failed and whose write of on=1 was accepted.
C26_Witness ==
    /\ EnterOn({focusToggle})
    /\ \E a \in Addrs :
         /\ Len(calls[a]) = 2
         /\ calls[a][1].res = "offline"
         /\ calls[a][2].res = "ok" /\ calls[a][2].patch = {<<"on", 1>>}
         /\ dev[a].on = 1
         /\ message = "lights toggled"

\* The calls of attempt k in the log of a fast toggle.
AttemptLog(log, k) == SelectSeq(log, LAMBDA c : c.attempt = k)

\* C27: every attempt of the fast toggle ("keylight <light>") makes the
\* calls of one slow toggle: one read, then one write of the inverse of the
\* power read, or of on if the read failed.
C27_AttemptIsSlowToggle ==
    [][ (cmd'.src = "cli" /\ cmd'.name = ""
         /\ out'.msg \in {"Toggled", "Failed to toggle"}) =>
          \A a \in Addrs : \A k \in AttemptsOf(calls'[a]) :
             LET log == AttemptLog(calls'[a], k) IN
             /\ Len(log) = 2
             /\ log[1].op = "GET"
             /\ log[2].op = "PUT"
             /\ log[2].patch = {<<"on", IF log[1].res = "ok" THEN Inverse(dev[a].on)
                                        ELSE 1>>} ]_vars

\* n / d rounded to the nearest integer, for positive n and d.
RoundDiv(n, d) == (2 * n + d) \div (2 * d)

\* C28: a write of K Kelvin carries the wire temperature round(1000000 / K),
\* and the Kelvin value printed for a light that holds wire temperature w is
\* round(1000000 / w).
C28_ConversionRounds ==
    \A a \in Addrs :
      /\ \A i \in Puts(calls[a]) : \A p \in calls[a][i].patch :
           p[1] = "temperature" =>
             <<"temperature", RoundDiv(Million, p[2])>> \in calls[a][i].body
      /\ a \in DOMAIN out.shown /\ Len(out.shown[a]) = 3 =>
           out.shown[a][3] = RoundDiv(Million, dev[a].temperature)

\* C29: getLightState returns an error for a transport error, for a status
\* other than 200, for an undecodable body and for an empty list of lights;
\* for any other reply it returns the first entry of the list and no error.
C29_ReadFailsOrFirstEntry ==
    (cmd.src = "call" /\ cmd.name = "getLightState") =>
        LET a == IPOf(1)
            r == calls[a][1].res
        IN  IF r \in {"offline", "status", "undecodable", "empty"}
            THEN out.err # NoError
            ELSE /\ out.err = NoError
                 /\ out.shown[a] = <<dev[a].on, dev[a].brightness, dev[a].temperature>>

\* The names of the fields of a set of <<field, value>> pairs.
Fields(pairs) == {p[1] : p \in pairs}

\* The one attribute that the command of this step sets, "none" for a
\* command that writes nothing.
CommandField ==
    CASE cmd'.src = "key" /\ cmd'.name = "enter"
           /\ focusedControl \in {focusToggle, focusTurnOff, focusTurnOn} -> "on"
      [] cmd'.src = "key" /\ cmd'.name = "enter" /\ focusedControl = focusBrightness
           -> "brightness"
      [] cmd'.src = "key" /\ cmd'.name = "enter" /\ focusedControl = focusTemperature
           -> "temperature"
      [] cmd'.src = "cli" /\ cmd'.name \in {"", "on", "off"} -> "on"
      [] cmd'.src = "cli" /\ cmd'.name = "bright" -> "brightness"
      [] cmd'.src = "cli" /\ cmd'.name = "temp" -> "temperature"
      [] OTHER -> "none"

\* C30: every write of a command carries exactly the field the command
\* sets: a power command only on, a brightness command only brightness, a
\* temperature command only temperature.  The other attributes of every
\* light stay as they were, and a light that accepted no write is unchanged.
\* A write that ends in a transport error or a status other than 200 is
\* reported as failed by "<light> on" / "<light> off".
C30_PartialUpdate ==
    [][ /\ \A a \in Addrs :
             /\ \A i \in Puts(calls'[a]) :
                  /\ Fields(calls'[a][i].body) = Fields(calls'[a][i].patch)
                  /\ Fields(calls'[a][i].body) = {CommandField}
             /\ \A f \in {"on", "brightness", "temperature"} \ {CommandField} :
                  dev'[a][f] = dev[a][f]
             /\ ~Accepted(calls'[a]) => dev'[a] = dev[a]
        /\ (cmd'.src = "cli" /\ cmd'.target # <<>> /\ cmd'.name \in {"on", "off"}
            /\ calls' # NoCalls) =>
             (out'.msg = "Failed" <=> \E a \in Addrs : Refused(calls'[a])) ]_vars

\* A brightness commit of the session that a light accepted: the light holds
\* the committed brightness and the power and temperature it started with.
C30_Witness ==
    /\ EnterOn({focusBrightness})
    /\ \E a \in Addrs :
         /\ Len(calls[a]) = 1
         /\ calls[a][1].res = "ok"
         /\ calls[a][1].body = {<<"brightness", brightnessValue>>}
         /\ dev[a].brightness = brightnessValue
         /\ dev[a].on = SessionDevices[a].on
         /\ dev[a].temperature = SessionDevices[a].temperature
         /\ dev[a].brightness # SessionDevices[a].brightness

\* The lights whose call stands at st.
TasksAt(st) == {a \in DOMAIN par.task : par.task[a] = st}

\* C31: "on" / "off" over the registered lights: one task per light; the
\* channel takes every result without blocking its sender; what is in the
\* channel and what was collected are results of distinct finished tasks;
\* as long as results are missing, a task or the collector can take a step;
\* the command ends only when every task has handed off its result and the
\* collector holds exactly one result per light.
C31_CollectOnePerTask ==
    (cmd.src = "cli" /\ cmd.name \in {"on", "off"} /\ par.pc # "none") =>
        LET T == Range(config.lights)
            handed == par.got \o par.results
        IN  /\ DOMAIN par.task = T
            /\ TasksAt("sending") # {} => Len(par.results) < Capacity(Cardinality(T))
            /\ Range(handed) = TasksAt("done")
            /\ Len(handed) = Cardinality(TasksAt("done"))
            /\ par.pc = "collect" =>
                 \/ par.results # <<>>
                 \/ TasksAt("ready") \cup TasksAt("calling") \cup TasksAt("sending") # {}
            /\ par.pc = "exit" =>
                 /\ TasksAt("done") = T
                 /\ par.results = <<>>
                 /\ Range(par.got) = T /\ Len(par.got) = Cardinality(T)
                 /\ \A a \in T : Cardinality(Puts(calls[a])) = 1

\* "on" over three lights has ended; the results came in another order than
\* the one in which the goroutines were started.
C31_Witness ==
    /\ cmd.src = "cli" /\ cmd.name = "on"
    /\ par.pc = "exit"
    /\ Len(par.got) = 3
    /\ par.got # par.ips
    /\ \E a \in Range(par.got) : Refused(calls[a])

\* C32: in a command over several lights no call waits for another: while
\* the call to one light is in flight, the call to any light that has not
\* been called yet can be issued.
C32_NoCallWaits ==
    \A a \in TasksAt("ready") : TasksAt("calling") # {} => ENABLED Issue(a)

\* C33: the input loop never handles a key while a refresh is between its
\* writes: at every key the refresh has either not touched the settings or
\* has replaced and saved the registry, so the registry of the settings
\* object is the one in the file.
C33_SwapIsAtomic ==
    [][ steps' # steps =>
          /\ par.pc = "none"
          /\ config.lights = loadConfig(disk).lights ]_vars

\* C34: a step changes the selection mode only if it handles key "a", "1" or
\* "2"; navigation, value adjustment, commits (failed or not), quitting and
\* discovery leave it as it was; and before and after every step the focused
\* control is one of the five controls.
C34_SelectionOnlyBySelectionKeys ==
    [][ /\ (selectedLightMode' # selectedLightMode =>
              cmd'.src = "key" /\ cmd'.name \in {"a", "1", "2"})
        /\ focusedControl \in controlFocus
        /\ focusedControl' \in controlFocus ]_vars

\* A failed toggle committed while the second light is selected.
C34_Witness ==
    /\ cmd.src = "key" /\ cmd.name = "enter"
    /\ selectedLightMode = light2
    /\ message = "Error toggling lights"

\* C35: when an interactive refresh ends with nothing found, the session's
\* message says that no lights were found, and the settings object, the file
\* and the registry in use are what they were.
C35_NothingFoundReported ==
    [][ (cmd'.src = "go" /\ cmd'.target = <<>>) =>
          /\ message' = "No lights found"
          /\ UNCHANGED <<disk, config, lights, lightsList>> ]_vars

\* C36: when toggleLightFast returns no error, the light's power is the
\* inverse of its power when the call began.
C36_SuccessInvertsOnce ==
    [][ (cmd'.src = "call" /\ cmd'.name = "toggleLightFast" /\ out'.err = NoError)
          => dev'[IPOf(1)].on = 1 - dev[IPOf(1)].on ]_vars

\* C37: in every state of the session the selection resolves to at least
\* one address, and every address it resolves to is the address of a light
\* of the registry in use.
C37_SelectionResolves ==
    \A order \in MapOrders(lights) :
      LET ips == getSelectedLightIPs(selectedLightMode, lights, lightsList, order)
      IN  /\ ips # <<>>
          /\ \A i \in 1..Len(ips) : ips[i] \in Range(lights)

\* The defaults a settings file holds for the program that loads it.
Persisted(d) == Effective(loadConfig(d))

\* The step is a power command of the command line: on, off or a toggle.
PowerCommand == cmd'.src = "cli" /\ cmd'.name \in {"", "on", "off"}

\* C38: a relative adjustment, an equalize and a power command leave the
\* settings file as it was, whatever the lights answered; and a step that
\* changes a persisted default is an explicit value command.
C38_OnlyValueCommandsPersist ==
    [][ /\ (Relative(cmd') \/ Equalize(cmd') \/ PowerCommand) => disk' = disk
        /\ Persisted(disk') # Persisted(disk) => ValueCommand ]_vars

\* "bright +" has moved a light away from the stored default, which stays.
C38_Witness ==
    /\ Relative(cmd) /\ cmd.name = "bright"
    /\ \E a \in Addrs :
         /\ Accepted(calls[a])
         /\ dev[a].brightness # loadConfig(disk).lastBrightness

\* C39: once runDiscovery has returned the mapping, the mapping is written
\* no more: every store of the collector happens while the browse runs.
C39_NoWriteAfterReturn ==
    [][ (cmd.name = "detect" /\ par.pc # "browse")
          => par'.discovered = par.discovered ]_vars

====
